---- MODULE Spec2Model ----
(***************************************************************************)
(* Verification model of the EarthRing procedural generator                *)
(* (server/internal/procedural).                                           *)
(*                                                                         *)
(* All lengths are integers in centimetres (1 m = 100).  Probabilities     *)
(* and random draws are integers in permille (0..999 stands for [0, 1)).   *)
(*                                                                         *)
(* Four state machines share the module:                                   *)
(*   - the scatter placement pass of structure_generator.py   (ScatterSpec)*)
(*   - the grid-cell pass of generation.py                    (GridSpec)   *)
(*   - generate_building of buildings.py                      (BuildSpec)  *)
(*   - the flare functions of stations.py and generation.py   (FlareSpec)  *)
(* The flare machine measures ring positions and widths in whole metres.   *)
(***************************************************************************)
EXTENDS Integers, Sequences, FiniteSets, TLC

VARIABLES
    \* ---- structure_generator.generate_structures_for_zones ----
    sc_zones,        \* the zones argument (sequence of zone records)
    sc_pc,           \* "next_zone" | "loop" | "returned" | "raised"
    sc_idx,          \* index of the zone being processed (enumerate idx, 1-based)
    placed,          \* accepted footprints of the current zone
    attempts,        \* attempts counter of the current zone
    target_count,    \* target_count of the current zone
    gap,             \* spacing chosen for the current zone (cm)
    structures,      \* structures emitted so far (all zones)
    sc_iter,         \* number of loop iterations executed in the current zone
    \* ---- buildings.generate_building ----
    b_pc,            \* position in generate_building / _generate_doors
    b_in,            \* the arguments: [y, zone_type, zone_importance, building_seed]
    rng_i,           \* number of draws taken from rng = seeded_random(building_seed)
    dims,            \* [width, depth, height, building_subtype]
    corner_trim_width,
    windows,         \* list of window records
    main_door_facade,
    doors,           \* facade -> list of doors on it (<<>> = key absent)
    garage_doors,    \* list of garage door records
    utility_doors,   \* list of utility door records
    fd_facade,       \* find_door_position: the facade argument
    fd_attempt,      \* find_door_position: attempts made in the random loop
    fd_ret,          \* find_door_position: what the last call returned, and how
    todo,            \* facades still to receive a secondary door
    results,         \* buildings returned by the calls made so far
    \* ---- generation._generate_structures_for_zones (grid pass) ----
    g_pc,            \* "caller" | "zones" | "cells" | "returned"
    g_zones,         \* the zones argument
    chunk_seed,
    g_idx,           \* index of the zone being processed
    grid_cells,      \* grid_cells of the current zone
    g_cell,          \* index of the next cell of the for loop
    g_structures,    \* structures emitted so far (all zones)
    g_raised,        \* indexes of the zones whose except clause has run
    \* ---- stations.calculate_flare_* and generation.calculate_restricted_zone_width ----
    fl_pc,           \* "caller" | "width" | "levels" | "restricted" | "done"
    ring_position,   \* the ring position handed to the three functions (m)
    fl_width,        \* value returned by calculate_flare_width (m)
    fl_levels,       \* value returned by calculate_flare_levels
    fl_half_width,   \* value returned by calculate_restricted_zone_width (m)
    \* ---- structure_generator._filter_windows_by_openings ----
    fw_pc,           \* "caller" | "made" | "returned"
    fw_args,         \* [width, depth, height, class_name, door_x] of the placed building
    fw_windows,      \* the windows argument (from _make_windows)
    model_doors,     \* the doors argument: the doors of the front facade
    model_garage_doors, \* the garage_doors argument
    filtered         \* the list returned

scVars == <<sc_zones, sc_pc, sc_idx, placed, attempts, target_count, gap,
            structures, sc_iter>>

bVars == <<b_pc, b_in, rng_i, dims, corner_trim_width, windows, main_door_facade,
           doors, garage_doors, utility_doors, fd_facade, fd_attempt, fd_ret,
           todo, results>>

gVars == <<g_pc, g_zones, chunk_seed, g_idx, grid_cells, g_cell, g_structures,
           g_raised>>

flVars == <<fl_pc, ring_position, fl_width, fl_levels, fl_half_width>>

fwVars == <<fw_pc, fw_args, fw_windows, model_doors, model_garage_doors, filtered>>

vars == <<scVars, bVars, gVars, flVars, fwVars>>

Facades == {"front", "back", "left", "right"}

\* ---- values of a machine's variables while another machine is running ----
NoArguments == [position |-> <<0, 0>>, zone_type |-> "none", zone_importance |-> 0,
                building_seed |-> 0, floor |-> 0]
NoDoors == [f \in Facades |-> <<>>]
NoDims == [width |-> 0, depth |-> 0, height |-> 0, building_subtype |-> "none"]
NoReturn == [facade |-> "none", x |-> 0, via |-> "none", attempts |-> 0]

BuildIdle ==
    /\ b_pc = "idle"
    /\ b_in = NoArguments
    /\ rng_i = 0
    /\ dims = NoDims
    /\ corner_trim_width = 0
    /\ windows = <<>>
    /\ main_door_facade = "none"
    /\ doors = NoDoors
    /\ garage_doors = <<>>
    /\ utility_doors = <<>>
    /\ fd_facade = "none"
    /\ fd_attempt = 0
    /\ fd_ret = NoReturn
    /\ todo = <<>>
    /\ results = <<>>

ScatterIdle ==
    /\ sc_zones = <<>>
    /\ sc_pc = "idle"
    /\ sc_idx = 1
    /\ placed = <<>>
    /\ attempts = 0
    /\ target_count = 0
    /\ gap = 0
    /\ structures = <<>>
    /\ sc_iter = 0

GridIdle ==
    /\ g_pc = "idle"
    /\ g_zones = <<>>
    /\ chunk_seed = 0
    /\ g_idx = 1
    /\ grid_cells = <<>>
    /\ g_cell = 1
    /\ g_structures = <<>>
    /\ g_raised = {}

FlareIdle ==
    /\ fl_pc = "idle"
    /\ ring_position = 0
    /\ fl_width = 0
    /\ fl_levels = 0
    /\ fl_half_width = 0

FilterIdle ==
    /\ fw_pc = "idle"
    /\ fw_args = [width |-> 0, depth |-> 0, height |-> 0, class_name |-> "none", door_x |-> 0]
    /\ fw_windows = <<>>
    /\ model_doors = <<>>
    /\ model_garage_doors = <<>>
    /\ filtered = <<>>

Max(a, b) == IF a >= b THEN a ELSE b
Min(a, b) == IF a <= b THEN a ELSE b
Abs(a) == IF a >= 0 THEN a ELSE -a

(***************************************************************************)
(* structure_generator.py : scatter placement                              *)
(***************************************************************************)

\* Spacing (cm) by subcategory; .get(subcat, 5.0) default.
SPACING_BY_SUBCATEGORY(subcat) ==
    CASE subcat = "logistics"        -> 800
      [] subcat = "warehouse"        -> 600
      [] subcat = "plant"            -> 1000
      [] subcat = "yard_platform"    -> 1200
      [] subcat = "light_industrial" -> 500
      [] OTHER                       -> 500

\* Count scale (tenths) by subcategory; .get(subcat, 1.0) default.
COUNT_SCALE_BY_SUBCATEGORY(subcat) ==
    CASE subcat = "logistics"        -> 9
      [] subcat = "warehouse"        -> 10
      [] subcat = "plant"            -> 7
      [] subcat = "yard_platform"    -> 6
      [] subcat = "light_industrial" -> 12
      [] OTHER                       -> 10

\* Building classes served by the structure library (building-classes.json).
ClassNames == {"standard_warehouse_bar", "light_workshop", "reactor_plant", "office_block"}

get_building_class(class_name) ==
    CASE class_name = "standard_warehouse_bar" ->
            [subcategory |-> "warehouse", base_shape |-> "bar",
             decorative_elements |-> {}, category |-> "industrial"]
      [] class_name = "light_workshop" ->
            [subcategory |-> "light_industrial", base_shape |-> "rectangle",
             decorative_elements |-> {}, category |-> "industrial"]
      [] class_name = "reactor_plant" ->
            [subcategory |-> "plant", base_shape |-> "rectangle",
             decorative_elements |-> {"cooling_tower", "reactor_turbine_hall"},
             category |-> "industrial"]
      [] OTHER ->
            [subcategory |-> "office", base_shape |-> "rectangle",
             decorative_elements |-> {}, category |-> "commercial"]

\* Class distribution of a zone type (the weighted list, weights > 0).
get_zone_distribution(zone_type) ==
    CASE zone_type = "industrial" -> {"standard_warehouse_bar", "light_workshop", "reactor_plant"}
      [] zone_type = "commercial" -> {"office_block"}
      [] OTHER -> {}

\* Size class: width and depth ranges (cm).
size_def == [width |-> <<800, 1200>>, depth |-> <<600, 1000>>]

\* Values rng.uniform(lo, hi) is sampled at: both ends and the middle.
UniformSamples(lo, hi) == {lo, (lo + hi) \div 2, hi}

_clamp_dimensions(width, depth, z) ==
    LET max_width == Max((z.max_x - z.min_x) - 2 * 500, 500)
        max_depth == Max((z.max_y - z.min_y) - 2 * 500, 500)
    IN  <<Min(width, max_width), Min(depth, max_depth)>>

_target_building_count(zone_area, avg_footprint) ==
    IF avg_footprint <= 0 \/ zone_area <= 0 THEN 1
    ELSE Min(8, Max(1, zone_area \div (avg_footprint * 2)))

\* Rectangles are records [x0, y0, x1, y1].
box(x0, y0, x1, y1) == [x0 |-> x0, y0 |-> y0, x1 |-> x1, y1 |-> y1]

\* Squared distance between two axis-aligned rectangles (0 when they meet).
RectDist2(a, b) ==
    LET dx == Max(0, Max(a.x0 - b.x1, b.x0 - a.x1))
        dy == Max(0, Max(a.y0 - b.y1, b.y0 - a.y1))
    IN  dx * dx + dy * dy

\* Positive-area intersection.
RectOverlap(a, b) == a.x0 < b.x1 /\ b.x0 < a.x1 /\ a.y0 < b.y1 /\ b.y0 < a.y1

\* Closed rectangles meet but share no interior point.
RectTouch(a, b) == RectDist2(a, b) = 0 /\ ~RectOverlap(a, b)

\* polygon.contains(Point): strictly inside the (rectangular) zone polygon.
PolygonContainsPoint(z, x, y) ==
    z.min_x < x /\ x < z.max_x /\ z.min_y < y /\ y < z.max_y

\* polygon.contains(footprint.buffer(d)): the footprint grown by d lies in
\* the closed zone polygon.
PolygonContainsBuffered(z, fp, d) ==
    /\ z.min_x <= fp.x0 - d /\ fp.x1 + d <= z.max_x
    /\ z.min_y <= fp.y0 - d /\ fp.y1 + d <= z.max_y

\* footprint.buffer(gap / 2).intersects(p): p within gap/2 of the footprint.
SpacingRejects(fp, p, g) == 4 * RectDist2(fp, p) <= g * g

\* ---- bounds of the scatter model ----
CandStepsX == 6     \* rng.uniform(min_x, max_x) is sampled on CandStepsX + 1 points
CandStepsY == 2     \* rng.uniform(min_y, max_y) is sampled on CandStepsY + 1 points
MaxZones == 2       \* zones per call

Grid1D(lo, hi, n) == {lo + (k * (hi - lo)) \div n : k \in 0..n}

\* Zones handed to generate_structures_for_zones.  A Polygon zone is an
\* axis-aligned rectangle (its own bounding box); points is the number of
\* coordinate pairs of its ring (5 for a closed rectangle).
Zone(zt, geom, x1, y1) ==
    [zone_type |-> zt, geometry |-> geom, min_x |-> 0, max_x |-> x1, min_y |-> 0, max_y |-> y1,
     points |-> IF geom = "Polygon" THEN 5 ELSE 0]
BigZone       == Zone("industrial", "Polygon", 2500, 1900)
SmallZone     == Zone("commercial", "Polygon", 1400, 1200)
RestrictedZone == Zone("restricted", "Polygon", 2500, 1900)
EmptyZone     == Zone("industrial", "none", 0, 0)
\* a rectangle squeezed flat (zero area) and a ring of two points only
FlatZone      == Zone("industrial", "Polygon", 2500, 0)
TwoPointZone  == [Zone("industrial", "Polygon", 2500, 0) EXCEPT !.points = 2]
ScZoneLists ==
    {<<BigZone>>, <<RestrictedZone, BigZone>>,
     <<EmptyZone, SmallZone>>, <<SmallZone, SmallZone>>,
     <<FlatZone, SmallZone>>, <<TwoPointZone, SmallZone>>}

ZoneArea(z) == (z.max_x - z.min_x) * (z.max_y - z.min_y)

ScatterInit ==
    /\ sc_zones \in {zs \in ScZoneLists : Len(zs) <= MaxZones}
    /\ sc_pc = "next_zone"
    /\ sc_idx = 1
    /\ placed = <<>>
    /\ attempts = 0
    /\ target_count = 0
    /\ gap = 0
    /\ structures = <<>>
    /\ sc_iter = 0
    /\ BuildIdle
    /\ GridIdle
    /\ FlareIdle
    /\ FilterIdle

\* for idx, zone in enumerate(zones): the checks that skip a zone.
ZoneSkipped(z) ==
    \/ z.zone_type \in {"restricted", ""}
    \/ z.geometry # "Polygon"
    \/ ZoneArea(z) <= 0
    \/ get_zone_distribution(z.zone_type) = {}

\* polygon = sg.Polygon(coords): shapely raises ValueError for a ring of
\* fewer than 3 points; the call is reached after the zone type, geometry
\* type and empty-ring checks and is inside no try block.
PolygonRaises(z) ==
    /\ z.zone_type \notin {"restricted", ""}
    /\ z.geometry = "Polygon"
    /\ z.points > 0
    /\ z.points < 3

\* C24 mutant: the list of the previous zone is carried over.
placed_carried_over(previous) == previous

\* placed: List[sg.Polygon] = []
placed_at_zone_start(previous) == <<>>

\* Loop head of one zone: skip it, or draw the first class and derive
\* target_count, max_attempts and gap; placed starts empty.
StartZone ==
    /\ sc_pc = "next_zone"
    /\ sc_idx <= Len(sc_zones)
    /\ LET z == sc_zones[sc_idx] IN
       IF PolygonRaises(z)
       THEN /\ sc_pc' = "raised"
            /\ UNCHANGED <<sc_idx, placed, attempts, target_count, gap, sc_iter>>
       ELSE IF ZoneSkipped(z)
       THEN /\ sc_idx' = sc_idx + 1
            /\ UNCHANGED <<sc_pc, placed, attempts, target_count, gap, sc_iter>>
       ELSE \E class_name \in get_zone_distribution(z.zone_type) :
              LET class_def == get_building_class(class_name)
                  avg_fp == ((size_def.width[1] + size_def.width[2]) \div 2)
                            * ((size_def.depth[1] + size_def.depth[2]) \div 2)
                  subcat == class_def.subcategory
                  count_scale == COUNT_SCALE_BY_SUBCATEGORY(subcat)
              IN  /\ target_count' =
                        Max(1, (_target_building_count(ZoneArea(z), avg_fp) * count_scale) \div 10)
                  /\ gap' = SPACING_BY_SUBCATEGORY(subcat)
                  /\ placed' = placed_at_zone_start(placed)
                  /\ attempts' = 0
                  /\ sc_iter' = 0
                  /\ sc_pc' = "loop"
                  /\ UNCHANGED sc_idx
    /\ UNCHANGED <<sc_zones, structures>>
    /\ UNCHANGED <<bVars, gVars, flVars, fwVars>>

max_attempts == target_count * 30

\* The candidate footprint of one attempt (with the decoration margins).
Footprint(class_def, cand_x, cand_y, width, depth) ==
    LET half_w == width \div 2
        half_d == depth \div 2
        back_margin  == IF "cooling_tower" \in class_def.decorative_elements THEN 1200 ELSE 0
        right_margin == IF "reactor_turbine_hall" \in class_def.decorative_elements THEN 1400 ELSE 0
    IN  box(cand_x - half_w, cand_y - half_d - back_margin,
            cand_x + half_w + right_margin, cand_y + half_d)

\* The spacing check of one attempt against the accepted footprints.
SpacingCheckFails(fp, g) == \E i \in 1..Len(placed) : SpacingRejects(fp, placed[i], g)

\* C6 mutant: the counter is left alone.
attempts_unchanged(n) == n

\* attempts += 1, the first statement of the loop body
attempts_incremented(n) == n + 1

\* One iteration of: while len(placed) < target_count and attempts < max_attempts
Attempt ==
    /\ sc_pc = "loop"
    /\ Len(placed) < target_count /\ attempts < max_attempts
    /\ attempts' = attempts_incremented(attempts)
    /\ sc_iter' = sc_iter + 1
    /\ LET z == sc_zones[sc_idx] IN
       \E class_name \in get_zone_distribution("industrial"),
          w0 \in {size_def.width[1], size_def.width[2]},
          d0 \in {size_def.depth[1], size_def.depth[2]},
          cand_x \in Grid1D(z.min_x, z.max_x, CandStepsX),
          cand_y \in Grid1D(z.min_y, z.max_y, CandStepsY) :
         LET class_def == get_building_class(class_name)
             cl == _clamp_dimensions(w0, d0, z)
             swap == class_def.base_shape = "bar" /\ cl[1] < cl[2]
             width == IF swap THEN cl[2] ELSE cl[1]
             depth == IF swap THEN cl[1] ELSE cl[2]
             footprint == Footprint(class_def, cand_x, cand_y, width, depth)
         IN  IF \/ ~PolygonContainsPoint(z, cand_x, cand_y)
                \/ ~PolygonContainsBuffered(z, footprint, 10)
                \/ SpacingCheckFails(footprint, gap)
             THEN UNCHANGED <<placed, structures>>
             ELSE /\ placed' = Append(placed, footprint)
                  /\ structures' = Append(structures,
                         [zone |-> sc_idx, n |-> Len(placed) + 1,
                          building_class |-> class_name,
                          x |-> cand_x, y |-> cand_y,
                          width |-> width, depth |-> depth])
    /\ UNCHANGED <<sc_zones, sc_pc, sc_idx, target_count, gap>>
    /\ UNCHANGED <<bVars, gVars, flVars, fwVars>>

\* The while condition is false: go on with the next zone.
EndZone ==
    /\ sc_pc = "loop"
    /\ ~(Len(placed) < target_count /\ attempts < max_attempts)
    /\ sc_pc' = "next_zone"
    /\ sc_idx' = sc_idx + 1
    /\ UNCHANGED <<sc_zones, placed, attempts, target_count, gap, structures, sc_iter>>
    /\ UNCHANGED <<bVars, gVars, flVars, fwVars>>

\* return structures
ScatterReturn ==
    /\ sc_pc = "next_zone"
    /\ sc_idx > Len(sc_zones)
    /\ sc_pc' = "returned"
    /\ UNCHANGED <<sc_zones, sc_idx, placed, attempts, target_count, gap, structures, sc_iter>>
    /\ UNCHANGED <<bVars, gVars, flVars, fwVars>>

ScatterNext == StartZone \/ Attempt \/ EndZone \/ ScatterReturn

ScatterSpec == ScatterInit /\ [][ScatterNext]_vars
ScatterFairSpec == ScatterSpec /\ WF_vars(ScatterNext)

(***************************************************************************)
(* seeds.py / random.Random : the seeded pseudo-random stream              *)
(*                                                                         *)
(* random.Random(seed) is a stream whose i-th draw is a pure function of   *)
(* (seed, i).  The model's seeds enumerate every choice of StreamLen       *)
(* draws over the values DrawVals: draw i < StreamLen of seed s is digit i *)
(* of s written in base Len(DrawVals); later draws read the digits again.  *)
(***************************************************************************)
StreamLen == 4
DrawVals == <<0, 450, 900>>      \* permille values a draw of random() takes

RECURSIVE Pow(_, _)
Pow(b, e) == IF e = 0 THEN 1 ELSE b * Pow(b, e - 1)

NumSeeds == Pow(Len(DrawVals), StreamLen)
Seeds == 0..(NumSeeds - 1)

\* rng = random.Random(seed); the i-th call of rng.random(), in permille.
\* Draws 0 .. StreamLen-1 are the digits of the seed; each later round of
\* StreamLen draws reads the digits again, three places further on, so that a
\* draw is not tied to the draw made StreamLen calls before it.
StreamDigit(i) == (i + 3 * (i \div StreamLen)) % StreamLen
random(seed, i) == DrawVals[((seed \div Pow(Len(DrawVals), StreamDigit(i))) % Len(DrawVals)) + 1]

\* rng.uniform(a, b) = a + (b - a) * random()
uniform(a, b, r) == a + ((b - a) * r) \div 1000
\* rng.choice(seq)
choice(seq, r) == seq[((r * Len(seq)) \div 1000) + 1]
\* rng.randint(a, b)
randint(a, b, r) == a + (r * (b - a + 1)) \div 1000

\* hash((a, b, c)) % (2**31): a deterministic mix of the tuple into the seed range.
\* Python's int() truncates toward zero.
TruncDiv(a, b) == IF a >= 0 THEN a \div b ELSE -((-a) \div b)
HashSeed(a, b, c) == ((a * 7 + b) * 5 + c) % NumSeeds

get_building_seed(seed_of_chunk, cell_x, cell_y) == HashSeed(seed_of_chunk, cell_x, cell_y)

(***************************************************************************)
(* buildings.py : constants                                                *)
(***************************************************************************)
GRID_CELL_SIZE == 5000
MIN_BUILDING_WIDTH == 1000
MAX_BUILDING_WIDTH == 8000
MIN_BUILDING_DEPTH == 1000
MAX_BUILDING_DEPTH == 8000
FLOOR_HEIGHT == 400
WINDOW_WIDTH == 250
WINDOW_SPACING == 50


\* WINDOW_TYPES: height, bottom, top relative to the floor base (cm).
WINDOW_TYPES(t) ==
    CASE t = "full_height" -> [height |-> 300, bottom |-> 100, top |-> 400]
      [] t = "standard"    -> [height |-> 100, bottom |-> 200, top |-> 300]
      [] t = "ceiling"     -> [height |-> 50,  bottom |-> 325, top |-> 375]

(***************************************************************************)
(* buildings._get_building_dimensions                                      *)
(* Returns the base footprint, the height, the subtype and the number of   *)
(* draws consumed from rng (n).                                            *)
(***************************************************************************)
Dim(bw, bd, h, st, n) ==
    [base_width |-> bw, base_depth |-> bd, height |-> h, building_subtype |-> st, n |-> n]

BaseDimensions(zone_type, seed, i0) ==
    LET R(i) == random(seed, i0 + i) IN
    CASE zone_type = "residential" ->
            IF R(0) < 600
            THEN Dim(uniform(2000, 4000, R(2)), uniform(2000, 4000, R(3)),
                     choice(<<1200, 1600, 2000>>, R(4)),
                     choice(<<"apartment", "campus">>, R(1)), 5)
            ELSE Dim(uniform(1000, 1800, R(1)), uniform(1000, 1800, R(2)),
                     choice(<<800, 1200>>, R(3)), "house", 4)
      [] zone_type = "commercial" ->
            Dim(uniform(1500, 3500, R(0)), uniform(1500, 3500, R(1)), 2000, "retail", 2)
      [] zone_type = "industrial" ->
            IF R(0) < 600
            THEN IF R(1) < 800
                 THEN Dim(uniform(4000, 8000, R(3)), uniform(4000, 8000, R(4)),
                          choice(<<500, 1000>>, R(2)), "warehouse", 5)
                 ELSE Dim(uniform(4000, 8000, R(2)), uniform(4000, 8000, R(3)),
                          1200, "warehouse", 4)
            ELSE Dim(uniform(3000, 6500, R(1)), uniform(3000, 6500, R(2)),
                     IF R(3) < 700 THEN choice(<<500, 800, 1000, 1200>>, R(4))
                                   ELSE choice(<<1600, 2000>>, R(4)),
                     "factory", 5)
      [] zone_type \in {"mixed_use", "mixed-use"} ->
            IF R(0) < 500
            THEN IF R(1) < 600
                 THEN Dim(uniform(2000, 4000, R(3)), uniform(2000, 4000, R(4)),
                          choice(<<1200, 1600, 2000>>, R(5)),
                          choice(<<"apartment", "campus">>, R(2)), 6)
                 ELSE Dim(uniform(1000, 1800, R(2)), uniform(1000, 1800, R(3)),
                          choice(<<800, 1200>>, R(4)), "house", 5)
            ELSE IF R(0) < 800
            THEN Dim(uniform(1500, 3500, R(1)), uniform(1500, 3500, R(2)), 2000, "retail", 3)
            ELSE IF R(1) < 600
                 THEN Dim(uniform(4000, 7000, R(2)), uniform(4000, 7000, R(3)),
                          choice(<<500, 1000>>, R(4)), "warehouse", 5)
                 ELSE Dim(uniform(3000, 6000, R(2)), uniform(3000, 6000, R(3)),
                          choice(<<800, 1000, 1200>>, R(4)), "factory", 5)
      [] zone_type = "agricultural" ->
            IF R(0) < 700
            THEN Dim(uniform(1000, 1800, R(1)), uniform(1000, 1800, R(2)),
                     choice(<<800, 1200>>, R(3)), "house", 4)
            ELSE IF R(1) < 600
                 THEN Dim(uniform(1200, 2500, R(2)), uniform(1200, 2500, R(3)),
                          choice(<<500, 800, 1000>>, R(4)), "barn", 5)
                 ELSE Dim(uniform(1500, 3000, R(2)), uniform(1500, 3000, R(3)),
                          choice(<<500, 800, 1000>>, R(4)), "warehouse", 5)
      [] zone_type = "park" ->
            Dim(uniform(500, 1500, R(0)), uniform(500, 1500, R(1)),
                choice(<<400, 800>>, R(2)), "park_structure", 3)
      [] OTHER ->
            Dim(uniform(1000, 3000, R(0)), uniform(1000, 3000, R(1)),
                choice(<<1, 2, 3>>, R(2)) * FLOOR_HEIGHT, zone_type, 3)

\* C17 mutant: the importance of the zone weighs half as much.
ImportanceScale_half(zone_importance) == 700 + (zone_importance * 300) \div 1000

\* scale = 0.7 + zone_importance * 0.6 (permille), then the clamp.
ImportanceScale(zone_importance) == 700 + (zone_importance * 600) \div 1000

_get_building_dimensions(zone_type, zone_importance, seed, i0) ==
    LET b == BaseDimensions(zone_type, seed, i0)
        scale == ImportanceScale(zone_importance)
    IN  [width  |-> Max(MIN_BUILDING_WIDTH, Min(MAX_BUILDING_WIDTH, (b.base_width * scale) \div 1000)),
         depth  |-> Max(MIN_BUILDING_DEPTH, Min(MAX_BUILDING_DEPTH, (b.base_depth * scale) \div 1000)),
         height |-> b.height,
         building_subtype |-> b.building_subtype,
         n |-> b.n]

(***************************************************************************)
(* buildings._generate_window_grid                                         *)
(* Its rng is a fresh random.Random(building_seed): draws are counted      *)
(* from 0 again, in the order front, back, left, right; per floor three    *)
(* type draws, then one skip draw per horizontal slot.                     *)
(***************************************************************************)
\* sqrt(density) of the subtype, in 1/10000.
SqrtDensity(building_subtype) ==
    CASE building_subtype = "warehouse" -> 3162
      [] building_subtype = "factory" -> 4472
      [] building_subtype \in {"barn", "agri_industrial"} -> 4472
      [] building_subtype = "retail" -> 8660
      [] building_subtype = "house" -> 7746
      [] building_subtype \in {"apartment", "campus", "residence"} -> 8367
      [] building_subtype = "park_structure" -> 6325
      [] OTHER -> 8062

\* Chances (permille) of <<full_height, standard, ceiling>> windows on a floor.
WindowTypeChances(building_subtype) ==
    CASE building_subtype = "retail" -> <<850, 150, 100>>
      [] building_subtype = "warehouse" -> <<100, 300, 100>>
      [] OTHER -> <<200, 850, 250>>

windows_per_facade(facade_width, trim_margin, building_subtype) ==
    LET available_width == (facade_width - trim_margin * 2) - WINDOW_SPACING * 2
        n0 == Max(1, available_width \div (WINDOW_WIDTH + WINDOW_SPACING))
    IN  Max(1, (n0 * SqrtDensity(building_subtype)) \div 10000)

\* offset_local of slot i (0-based) on a facade.
offset_local(i, facade_width, trim_margin, building_subtype) ==
    LET available_width == (facade_width - trim_margin * 2) - WINDOW_SPACING * 2
        n == windows_per_facade(facade_width, trim_margin, building_subtype)
        min_offset == -(facade_width \div 2) + trim_margin + WINDOW_WIDTH \div 2
        max_offset == (facade_width \div 2) - trim_margin - WINDOW_WIDTH \div 2
    IN  IF n > 1
        THEN Min(min_offset + (i * available_width) \div (n - 1), max_offset - WINDOW_WIDTH \div 2)
        ELSE (min_offset + max_offset) \div 2

\* Building-relative position of a window at offset_local on a facade.
WindowPosition(facade, off, width, depth, z) ==
    CASE facade = "front" -> <<off, depth \div 2, z>>
      [] facade = "back"  -> <<off, -(depth \div 2), z>>
      [] facade = "left"  -> <<-(width \div 2), off, z>>
      [] facade = "right" -> <<width \div 2, off, z>>

Window(facade, off, width, depth, floor_base, t) ==
    [position |-> WindowPosition(facade, off, width, depth,
                                 floor_base + (WINDOW_TYPES(t).bottom + WINDOW_TYPES(t).top) \div 2),
     size |-> <<WINDOW_WIDTH, WINDOW_TYPES(t).height>>,
     facade |-> facade,
     type |-> t]

\* The windows of one slot, in the order full_height, standard, ceiling.
SlotWindows(facade, off, width, depth, floor_base, use) ==
    (IF use[1] THEN <<Window(facade, off, width, depth, floor_base, "full_height")>> ELSE <<>>)
    \o (IF use[2] THEN <<Window(facade, off, width, depth, floor_base, "standard")>> ELSE <<>>)
    \o (IF use[3] THEN <<Window(facade, off, width, depth, floor_base, "ceiling")>> ELSE <<>>)

\* Slots i..n-1 of one floor; base is the stream index of the floor's first draw.
RECURSIVE FloorWindows(_, _, _, _, _, _, _, _, _, _, _)
FloorWindows(i, n, base, seed, facade, facade_width, width, depth, trim, st, floor_base) ==
    IF i >= n THEN <<>>
    ELSE LET ch == WindowTypeChances(st)
             use == <<random(seed, base) < ch[1], random(seed, base + 1) < ch[2],
                      random(seed, base + 2) < ch[3]>>
             skip == random(seed, base + 3 + i) < 100
         IN  (IF skip THEN <<>>
              ELSE SlotWindows(facade, offset_local(i, facade_width, trim, st),
                               width, depth, floor_base, use))
             \o FloorWindows(i + 1, n, base, seed, facade, facade_width, width, depth,
                             trim, st, floor_base)

\* Floors f..num_floors-1 of one facade; base is the facade's first stream index.
RECURSIVE FacadeWindows(_, _, _, _, _, _, _, _, _, _, _)
FacadeWindows(f, num_floors, base, seed, facade, facade_width, width, depth, height, trim, st) ==
    IF f >= num_floors THEN <<>>
    ELSE LET n == windows_per_facade(facade_width, trim, st) IN
         FloorWindows(0, n, base + f * (3 + n), seed, facade, facade_width, width, depth,
                      trim, st, -(height \div 2) + f * FLOOR_HEIGHT)
         \o FacadeWindows(f + 1, num_floors, base, seed, facade, facade_width, width, depth,
                          height, trim, st)

_generate_window_grid(width, depth, height, building_seed, st, trim) ==
    LET num_floors == height \div FLOOR_HEIGHT
        nw == windows_per_facade(width, trim, st)
        nd == windows_per_facade(depth, trim, st)
        b1 == 0
        b2 == b1 + num_floors * (3 + nw)
        b3 == b2 + num_floors * (3 + nw)
        b4 == b3 + num_floors * (3 + nd)
    IN  IF num_floors < 1 THEN <<>>
        ELSE FacadeWindows(0, num_floors, b1, building_seed, "front", width, width, depth, height, trim, st)
          \o FacadeWindows(0, num_floors, b2, building_seed, "back", width, width, depth, height, trim, st)
          \o FacadeWindows(0, num_floors, b3, building_seed, "left", depth, width, depth, height, trim, st)
          \o FacadeWindows(0, num_floors, b4, building_seed, "right", depth, width, depth, height, trim, st)

(***************************************************************************)
(* buildings._generate_doors                                               *)
(***************************************************************************)
\* Facade-local horizontal coordinate of a window (win_x).
WinX(w) == IF w.facade \in {"front", "back"} THEN w.position[1] ELSE w.position[2]

FacadeWidth(facade, width, depth) == IF facade \in {"front", "back"} THEN width ELSE depth

door_width == 90
door_height == 210

foundation_height(height) == Min(50, height \div 10)
door_y_position(height) == (-(height \div 2) + foundation_height(height)) + door_height \div 2

\* corner_trim_width as _generate_doors sees it: generate_building does not
\* pass the building's trim, so the parameter keeps its default of 0.1 m.
doors_corner_trim_width == 10

door_overlaps_window(door_x, door_y, door_w, door_h, facade, wins) ==
    LET door_left == door_x - door_w \div 2
        door_right == door_x + door_w \div 2
        door_bottom == door_y - door_h \div 2
        door_top == door_y + door_h \div 2
        margin == 15
    IN  \E k \in 1..Len(wins) :
          LET w == wins[k]
              win_left == WinX(w) - w.size[1] \div 2
              win_right == WinX(w) + w.size[1] \div 2
              win_bottom == w.position[3] - w.size[2] \div 2
              win_top == w.position[3] + w.size[2] \div 2
          IN  /\ w.facade = facade
              /\ ~(\/ door_right < win_left - margin \/ door_left > win_right + margin
                   \/ door_top < win_bottom - margin \/ door_bottom > win_top + margin)

\* C9 mutant: the range starts at the corner of the facade.
fd_min_x_no_inset(facade_width) == -(facade_width \div 2)

\* find_door_position: bounds of the door centre on a facade.
fd_min_x(facade_width) == (-(facade_width \div 2) + doors_corner_trim_width) + door_width \div 2
fd_max_x(facade_width) == (facade_width \div 2 - doors_corner_trim_width) - door_width \div 2
fd_pos(facade_width, permille) ==
    fd_min_x(facade_width) + ((fd_max_x(facade_width) - fd_min_x(facade_width)) * permille) \div 1000

max_door_attempts == 50
\* The fixed positions tried after the random loop, in order.
edge_positions == <<100, 900, 250, 750>>
last_resort_positions == <<50, 950>>
fallback_position == 50

Door(x, height, t) ==
    [x |-> x, y |-> door_y_position(height), width |-> door_width, height |-> door_height, type |-> t]

\* random.shuffle of a 3-element list with two draws (Fisher-Yates from the end).
Swap(seq, i, j) == [k \in 1..Len(seq) |-> IF k = i THEN seq[j] ELSE IF k = j THEN seq[i] ELSE seq[k]]
shuffle(seq, r1, r2) == Swap(Swap(seq, 3, ((r1 * 3) \div 1000) + 1), 2, ((r2 * 2) \div 1000) + 1)

AllFacades == <<"front", "back", "left", "right">>
RECURSIVE Without(_, _)
Without(seq, x) ==
    IF seq = <<>> THEN <<>>
    ELSE (IF Head(seq) = x THEN <<>> ELSE <<Head(seq)>>) \o Without(Tail(seq), x)

\* The facades that get a secondary door, in order, and the draws consumed.
\* C12 mutant: only the front facade is backfilled.
north_south_facades_front_only == <<"front">>

\* north_south_facades of the warehouse / factory branch of _generate_doors
north_south_facades == <<"front", "back">>

SecondaryPlan(building_subtype, main_facade, seed, i) ==
    LET other_facades == Without(AllFacades, main_facade) IN
    CASE building_subtype = "retail" -> [facades |-> other_facades, n |-> 0]
      [] building_subtype \in {"apartment", "campus"} ->
            LET num_secondary_doors == randint(2, 3, random(seed, i))
                sh == shuffle(other_facades, random(seed, i + 1), random(seed, i + 2))
            IN  [facades |-> SubSeq(sh, 1, Min(num_secondary_doors, Len(sh))), n |-> 3]
      [] building_subtype = "house" ->
            IF random(seed, i) < 200
            THEN [facades |-> <<choice(other_facades, random(seed, i + 1))>>, n |-> 2]
            ELSE [facades |-> <<>>, n |-> 1]
      [] building_subtype = "residence" ->
            IF random(seed, i) < 400
            THEN [facades |-> <<choice(other_facades, random(seed, i + 1))>>, n |-> 2]
            ELSE [facades |-> <<>>, n |-> 1]
      [] building_subtype \in {"warehouse", "factory"} ->
            [facades |-> north_south_facades, n |-> 0]
      [] OTHER -> [facades |-> <<>>, n |-> 0]

(***************************************************************************)
(* buildings._generate_garage_doors                                        *)
(***************************************************************************)
utility_door_width == 90
utility_door_height == 210
garage_margin == 30
garage_spacing == 60
utility_spacing == 30
offset_adjusts == <<10, 20, 30, -10, -20, -30>>

\* Counts and facades drawn from rng, starting at draw i.
\* [per_facade-or-total count, facades, industrial?]
GaragePlan(building_subtype, seed, i) ==
    LET R(k) == random(seed, i + k) IN
    CASE building_subtype = "warehouse" ->
            LET garage_count_per_facade == IF R(0) < 500 THEN 2 ELSE IF R(0) < 850 THEN 3 ELSE 4
                place_on_both == R(1) < 600
            IN  IF place_on_both
                THEN [facades |-> <<"front", "back">>, count |-> Max(1, garage_count_per_facade)]
                ELSE [facades |-> <<choice(<<"front", "back">>, R(2))>>, count |-> randint(1, 4, R(3))]
      [] building_subtype = "factory" ->
            LET garage_count_per_facade == randint(1, 3, R(0))
                place_on_both == R(1) < 600
            IN  IF place_on_both
                THEN [facades |-> <<"front", "back">>, count |-> garage_count_per_facade]
                ELSE [facades |-> <<choice(<<"front", "back">>, R(2))>>, count |-> randint(1, 3, R(3))]
      [] building_subtype = "house" ->
            IF R(0) < 600
            THEN [facades |-> IF R(2) < 800 THEN <<"front">> ELSE <<choice(<<"front", "back">>, R(3))>>,
                  count |-> randint(1, 2, R(1))]
            ELSE [facades |-> <<>>, count |-> 0]
      [] building_subtype \in {"barn", "agri_industrial"} ->
            IF R(0) < 700
            THEN [facades |-> <<choice(<<"front", "back">>, R(2))>>, count |-> randint(1, 2, R(1))]
            ELSE [facades |-> <<>>, count |-> 0]
      [] OTHER -> [facades |-> <<>>, count |-> 0]

garage_width(building_subtype) == IF building_subtype = "warehouse" THEN 240 ELSE 300
garage_height(building_subtype) == IF building_subtype = "warehouse" THEN 300 ELSE 200
garage_door_type(building_subtype) == IF building_subtype = "warehouse" THEN "truck_bay" ELSE "garage"
\* Barns and agri-industrial buildings put the garage door on the building base.
garage_y_position(building_subtype, height) ==
    IF building_subtype \in {"warehouse", "factory", "house"}
    THEN (-(height \div 2) + foundation_height(height)) + garage_height(building_subtype) \div 2
    ELSE -(height \div 2) + garage_height(building_subtype) \div 2
utility_door_y_position(height) ==
    (-(height \div 2) + foundation_height(height)) + utility_door_height \div 2

\* garage_door_overlaps / garage_door_overlaps_simple: windows, the doors
\* handed in by generate_building and the garage doors placed so far.
garage_door_overlaps(garage_x, facade, st, height, wins, drs, garages) ==
    LET gw == garage_width(st)
        gh == garage_height(st)
        gy == garage_y_position(st, height)
        garage_left == (garage_x - gw \div 2) - garage_margin
        garage_right == (garage_x + gw \div 2) + garage_margin
        garage_bottom == gy - gh \div 2
        garage_top == gy + gh \div 2
    IN  \/ \E k \in 1..Len(wins) :
             LET w == wins[k]
                 win_left == WinX(w) - w.size[1] \div 2
                 win_right == WinX(w) + w.size[1] \div 2
                 win_bottom == w.position[3] - w.size[2] \div 2
                 win_top == w.position[3] + w.size[2] \div 2
             IN  /\ w.facade = facade
                 /\ ~(\/ garage_right < win_left \/ garage_left > win_right
                      \/ garage_top < win_bottom \/ garage_bottom > win_top)
        \/ \E k \in 1..Len(drs[facade]) :
             LET door == drs[facade][k]
                 door_left == door.x - door.width \div 2
                 door_right == door.x + door.width \div 2
             IN  ~(\/ garage_right < door_left - garage_margin
                   \/ garage_left > door_right + garage_margin)
        \/ \E k \in 1..Len(garages) :
             LET existing_left == garages[k].x - gw \div 2
                 existing_right == garages[k].x + gw \div 2
             IN  /\ garages[k].facade = facade
                 /\ ~(\/ garage_right < existing_left - garage_margin
                      \/ garage_left > existing_right + garage_margin)

\* The position finally used for a garage door first tried at garage_offset:
\* <<the offset itself>>, <<the first admissible adjustment>>, or <<>> (skipped).
GaragePosition(garage_offset, facade, facade_width, st, height, trim, wins, drs, garages) ==
    IF ~garage_door_overlaps(garage_offset, facade, st, height, wins, drs, garages)
    THEN <<garage_offset>>
    ELSE LET ok(a) == /\ Abs(garage_offset + a) + garage_width(st) \div 2
                           <= facade_width \div 2 - trim
                      /\ ~garage_door_overlaps(garage_offset + a, facade, st, height, wins, drs, garages)
             good == {k \in 1..Len(offset_adjusts) : ok(offset_adjusts[k])}
         IN  IF good = {} THEN <<>>
             ELSE <<garage_offset + offset_adjusts[CHOOSE k \in good : \A j \in good : k <= j]>>

\* C14 mutant: the door is always put on the left of the garage door.
UtilityDoorX_left(garage_offset, facade_width, st, trim) ==
    ((garage_offset - garage_width(st) \div 2) - utility_spacing) - utility_door_width \div 2

\* x of the standard / utility door placed beside a garage door.
UtilityDoorX(garage_offset, facade_width, st, trim) ==
    LET right_x == ((garage_offset + garage_width(st) \div 2) + utility_spacing) + utility_door_width \div 2
        max_x == (facade_width \div 2 - trim) - utility_door_width \div 2
        left_x == ((garage_offset - garage_width(st) \div 2) - utility_spacing) - utility_door_width \div 2
        min_x == (-(facade_width \div 2) + trim) + utility_door_width \div 2
    IN  IF right_x + utility_door_width \div 2 > max_x
        THEN (IF left_x - utility_door_width \div 2 < min_x THEN min_x ELSE left_x)
        ELSE right_x

utility_door_overlaps_window(door_x, door_y, facade, wins) ==
    door_overlaps_window(door_x, door_y, utility_door_width, utility_door_height, facade, wins)

\* for i in range(garage_count): place door i and the door beside it.
\* acc = [g |-> garage doors so far, u |-> utility doors so far].
RECURSIVE PlaceGarages(_, _, _, _, _, _, _, _, _, _, _, _)
PlaceGarages(i, count, start_offset, step, facade, facade_width, st, height, trim, wins, drs, acc) ==
    IF i >= count THEN acc
    ELSE LET pos == GaragePosition(start_offset + i * step, facade, facade_width, st, height,
                                   trim, wins, drs, acc.g)
         IN  IF pos = <<>>
             THEN PlaceGarages(i + 1, count, start_offset, step, facade, facade_width, st,
                               height, trim, wins, drs, acc)
             ELSE LET garage_door == [facade |-> facade, x |-> pos[1],
                                      y |-> garage_y_position(st, height),
                                      width |-> garage_width(st), height |-> garage_height(st),
                                      type |-> garage_door_type(st)]
                      ux == UtilityDoorX(pos[1], facade_width, st, trim)
                      add == CASE st = "warehouse" -> TRUE
                               [] st = "house" -> FALSE
                               [] OTHER -> ~utility_door_overlaps_window(
                                               ux, utility_door_y_position(height), facade, wins)
                      utility_door == [facade |-> facade, x |-> ux,
                                       y |-> utility_door_y_position(height),
                                       width |-> utility_door_width, height |-> utility_door_height,
                                       type |-> IF st = "warehouse" THEN "standard" ELSE "utility"]
                  IN  PlaceGarages(i + 1, count, start_offset, step, facade, facade_width, st,
                                   height, trim, wins, drs,
                                   [g |-> Append(acc.g, garage_door),
                                    u |-> IF add THEN Append(acc.u, utility_door) ELSE acc.u])

\* One facade of "for facade in facades_to_use": side by side if the group
\* fits, otherwise with minimal spacing.
PlaceOnFacade(facade, count, width, st, height, trim, wins, drs, acc) ==
    LET gw == garage_width(st)
        available_width == width - trim * 2
        total_garage_width == gw * count + garage_spacing * (count - 1)
        taken == IF st \in {"warehouse", "factory", "house"} THEN gw * count ELSE total_garage_width
        spacing == IF count > 1 THEN TruncDiv(available_width - taken, Max(1, count + 1))
                   ELSE available_width \div 2
    IN  IF total_garage_width <= available_width
        THEN PlaceGarages(0, count, -(total_garage_width \div 2) + gw \div 2, gw + garage_spacing,
                          facade, width, st, height, trim, wins, drs, acc)
        ELSE PlaceGarages(0, count, (-(available_width \div 2) + spacing) + gw \div 2, gw + spacing,
                          facade, width, st, height, trim, wins, drs, acc)

RECURSIVE PlaceOnFacades(_, _, _, _, _, _, _, _, _)
PlaceOnFacades(facades, count, width, st, height, trim, wins, drs, acc) ==
    IF facades = <<>> THEN acc
    ELSE PlaceOnFacades(Tail(facades), count, width, st, height, trim, wins, drs,
                        PlaceOnFacade(Head(facades), count, width, st, height, trim, wins, drs, acc))

\* Returns [g |-> garage_doors, u |-> utility_doors]; i is the number of
\* draws already taken from rng.
_generate_garage_doors(width, depth, height, building_seed, st, i, trim, wins, drs) ==
    LET plan == GaragePlan(st, building_seed, i) IN
    IF plan.count > 0
    THEN PlaceOnFacades(plan.facades, plan.count, width, st, height, trim, wins, drs,
                        [g |-> <<>>, u |-> <<>>])
    ELSE [g |-> <<>>, u |-> <<>>]

(***************************************************************************)
(* buildings.generate_building as a step machine                           *)
(***************************************************************************)
\* ---- bounds and inputs of the building model ----
MaxCalls == 2       \* calls of generate_building with the same arguments
\* <<zone_type, zone_importance (permille)>> pairs handed to generate_building
BuildZones == {<<"industrial", 500>>, <<"industrial", 1000>>, <<"residential", 500>>,
               <<"commercial", 1000>>, <<"mixed_use", 0>>, <<"agricultural", 0>>, <<"agricultural", 500>>,
               <<"park", 1000>>, <<"other", 500>>}
\* lateral positions y: inward of the centerline, on it, outward of it
BuildYs == {-12500, 0, 12500}

\* C7 mutant: one generator shared by all calls, which goes on where the
\* previous call stopped.
seeded_random_shared(drawn_before) == drawn_before

\* rng = seeded_random(building_seed): a new generator, whose first draw is
\* draw 0 whatever was drawn before.
seeded_random(drawn_before) == 0

\* Lines 72-124: dimensions, corners, trim, windows, main door facade; then
\* _generate_doors starts looking for the main door.
GenerateBuilding ==
    /\ b_pc = "call"
    /\ LET seed == b_in.building_seed
           i0 == seeded_random(rng_i)
           d == _get_building_dimensions(b_in.zone_type, b_in.zone_importance, seed, i0)
           trim == uniform(10, 50, random(seed, i0 + d.n))
           y == b_in.position[2]
           front_distance_to_center == Abs(y + d.depth \div 2)
           back_distance_to_center == Abs(y - d.depth \div 2)
           facade == IF front_distance_to_center < back_distance_to_center THEN "front"
                     ELSE IF back_distance_to_center < front_distance_to_center THEN "back"
                     ELSE "front"
       IN  /\ dims' = [width |-> d.width, depth |-> d.depth, height |-> d.height,
                       building_subtype |-> d.building_subtype]
           /\ corner_trim_width' = trim
           /\ rng_i' = i0 + d.n + 1
           /\ windows' = _generate_window_grid(d.width, d.depth, d.height, seed,
                                               d.building_subtype, trim)
           /\ main_door_facade' = facade
           /\ fd_facade' = facade
    /\ doors' = NoDoors
    /\ garage_doors' = <<>>
    /\ utility_doors' = <<>>
    /\ fd_attempt' = 0
    /\ fd_ret' = NoReturn
    /\ todo' = <<>>
    /\ b_pc' = "find_main"
    /\ UNCHANGED <<b_in, results>>
    /\ UNCHANGED <<scVars, gVars, flVars, fwVars>>

Finding == b_pc \in {"find_main", "find_secondary"}

\* C10 mutant: every door stored by _generate_doors is typed "main".
FoundDoorType_AlwaysMain == "main"

\* The type given to the door that find_door_position was called for.
FoundDoorType ==
    IF b_pc = "find_main" THEN "main"
    ELSE IF dims.building_subtype \in {"warehouse", "factory"}
         THEN (IF fd_facade = main_door_facade THEN "main" ELSE "secondary")
         ELSE "secondary"

\* find_door_position returns x: the caller stores the door (doors[facade] = {...}).
ReturnDoor(x, via, n) ==
    /\ doors' = [doors EXCEPT ![fd_facade] = <<Door(x, dims.height, FoundDoorType)>>]
    /\ fd_ret' = [facade |-> fd_facade, x |-> x, via |-> via, attempts |-> n]
    /\ b_pc' = IF b_pc = "find_main" THEN "secondary_plan" ELSE "next_door"

OverlapsAt(x) ==
    door_overlaps_window(x, door_y_position(dims.height), door_width, door_height, fd_facade, windows)

\* One iteration of: for attempt in range(max_attempts)
FindDoorAttempt ==
    /\ Finding
    /\ fd_attempt < max_door_attempts
    /\ LET facade_width == FacadeWidth(fd_facade, dims.width, dims.depth)
           door_x == fd_pos(facade_width, random(b_in.building_seed, rng_i))
       IN  /\ rng_i' = rng_i + 1
           /\ fd_attempt' = fd_attempt + 1
           /\ IF ~OverlapsAt(door_x)
              THEN ReturnDoor(door_x, "random", fd_attempt + 1)
              ELSE UNCHANGED <<doors, fd_ret, b_pc>>
    /\ UNCHANGED <<b_in, dims, corner_trim_width, windows, main_door_facade, garage_doors,
                   utility_doors, fd_facade, todo, results>>
    /\ UNCHANGED <<scVars, gVars, flVars, fwVars>>

\* After the random loop: edge_positions, the two very-edge positions, then
\* the fallback at 5% from the left edge.
FindDoorFixed ==
    /\ Finding
    /\ fd_attempt = max_door_attempts
    /\ LET facade_width == FacadeWidth(fd_facade, dims.width, dims.depth)
           free(seq) == {k \in 1..Len(seq) : ~OverlapsAt(fd_pos(facade_width, seq[k]))}
           first(seq) == seq[CHOOSE k \in free(seq) : \A j \in free(seq) : k <= j]
       IN  IF free(edge_positions) # {}
           THEN ReturnDoor(fd_pos(facade_width, first(edge_positions)), "edge", fd_attempt)
           ELSE IF free(last_resort_positions) # {}
           THEN ReturnDoor(fd_pos(facade_width, first(last_resort_positions)), "last_resort", fd_attempt)
           ELSE ReturnDoor(fd_pos(facade_width, fallback_position), "fallback", fd_attempt)
    /\ UNCHANGED <<b_in, rng_i, dims, corner_trim_width, windows, main_door_facade, garage_doors,
                   utility_doors, fd_facade, fd_attempt, todo, results>>
    /\ UNCHANGED <<scVars, gVars, flVars, fwVars>>

\* Lines 851-937: which facades get a secondary door.
SecondaryDoors ==
    /\ b_pc = "secondary_plan"
    /\ LET plan == SecondaryPlan(dims.building_subtype, main_door_facade, b_in.building_seed, rng_i)
       IN  /\ todo' = plan.facades
           /\ rng_i' = rng_i + plan.n
    /\ b_pc' = "next_door"
    /\ UNCHANGED <<b_in, dims, corner_trim_width, windows, main_door_facade, doors, garage_doors,
                   utility_doors, fd_facade, fd_attempt, fd_ret, results>>
    /\ UNCHANGED <<scVars, gVars, flVars, fwVars>>

\* The for loop over those facades; _generate_doors returns when it is done.
NextDoor ==
    /\ b_pc = "next_door"
    /\ IF todo = <<>>
       THEN /\ b_pc' = "garage"
            /\ UNCHANGED <<todo, fd_facade, fd_attempt>>
       ELSE /\ todo' = Tail(todo)
            /\ IF dims.building_subtype \in {"warehouse", "factory"} /\ doors[Head(todo)] # <<>>
               THEN UNCHANGED <<b_pc, fd_facade, fd_attempt>>
               ELSE /\ fd_facade' = Head(todo)
                    /\ fd_attempt' = 0
                    /\ b_pc' = "find_secondary"
    /\ UNCHANGED <<b_in, rng_i, dims, corner_trim_width, windows, main_door_facade, doors,
                   garage_doors, utility_doors, fd_ret, results>>
    /\ UNCHANGED <<scVars, gVars, flVars, fwVars>>

\* Lines 135-137: garage_doors, utility_doors = _generate_garage_doors(...)
GenerateGarageDoors ==
    /\ b_pc = "garage"
    /\ LET r == _generate_garage_doors(dims.width, dims.depth, dims.height, b_in.building_seed,
                                       dims.building_subtype, rng_i, corner_trim_width,
                                       windows, doors)
       IN  /\ garage_doors' = r.g
           /\ utility_doors' = r.u
    /\ b_pc' = "merge"
    /\ UNCHANGED <<b_in, rng_i, dims, corner_trim_width, windows, main_door_facade, doors,
                   fd_facade, fd_attempt, fd_ret, todo, results>>
    /\ UNCHANGED <<scVars, gVars, flVars, fwVars>>

RECURSIVE OnFacade(_, _)
OnFacade(seq, facade) ==
    IF seq = <<>> THEN <<>>
    ELSE (IF Head(seq).facade = facade THEN <<Head(seq)>> ELSE <<>>) \o OnFacade(Tail(seq), facade)

\* Lines 141-220: merge the utility doors into doors and return the building.
MergeAndReturn ==
    /\ b_pc = "merge"
    /\ LET merged == [f \in Facades |-> doors[f] \o OnFacade(utility_doors, f)]
           x == b_in.position[1]
           y == b_in.position[2]
           hw == dims.width \div 2
           hd == dims.depth \div 2
           building ==
             [building_type |-> b_in.zone_type,
              building_subtype |-> dims.building_subtype,
              position |-> <<x, y, b_in.floor>>,
              dimensions |-> [width |-> dims.width, depth |-> dims.depth, height |-> dims.height],
              corners |-> << <<x - hw, y - hd>>, <<x + hw, y - hd>>,
                             <<x + hw, y + hd>>, <<x - hw, y + hd>> >>,
              windows |-> windows,
              doors |-> merged,
              garage_doors |-> garage_doors,
              corner_trim_width |-> corner_trim_width]
       IN  /\ doors' = merged
           /\ results' = Append(results, building)
    /\ b_pc' = "done"
    /\ UNCHANGED <<b_in, rng_i, dims, corner_trim_width, windows, main_door_facade,
                   garage_doors, utility_doors, fd_facade, fd_attempt, fd_ret, todo>>
    /\ UNCHANGED <<scVars, gVars, flVars, fwVars>>

\* The caller calls generate_building again with the same arguments.
CallAgain ==
    /\ b_pc = "done"
    /\ Len(results) < MaxCalls
    /\ b_pc' = "call"
    /\ UNCHANGED <<b_in, rng_i, dims, corner_trim_width, windows, main_door_facade, doors,
                   garage_doors, utility_doors, fd_facade, fd_attempt, fd_ret, todo, results>>
    /\ UNCHANGED <<scVars, gVars, flVars, fwVars>>

BuildInit ==
    /\ ScatterIdle
    /\ GridIdle
    /\ FlareIdle
    /\ FilterIdle
    /\ b_pc = "caller"
    /\ b_in = NoArguments
    /\ rng_i = 0
    /\ dims = NoDims
    /\ corner_trim_width = 0
    /\ windows = <<>>
    /\ main_door_facade = "none"
    /\ doors = NoDoors
    /\ garage_doors = <<>>
    /\ utility_doors = <<>>
    /\ fd_facade = "none"
    /\ fd_attempt = 0
    /\ fd_ret = NoReturn
    /\ todo = <<>>
    /\ results = <<>>

\* The caller picks the arguments of generate_building.
Call ==
    /\ b_pc = "caller"
    /\ \E zi \in BuildZones, y \in BuildYs, seed \in Seeds :
         b_in' = [position |-> <<2500, y>>, zone_type |-> zi[1], zone_importance |-> zi[2],
                  building_seed |-> seed, floor |-> 0]
    /\ b_pc' = "call"
    /\ UNCHANGED <<rng_i, dims, corner_trim_width, windows, main_door_facade, doors,
                   garage_doors, utility_doors, fd_facade, fd_attempt, fd_ret, todo, results>>
    /\ UNCHANGED <<scVars, gVars, flVars, fwVars>>

BuildNext ==
    \/ Call
    \/ GenerateBuilding
    \/ FindDoorAttempt
    \/ FindDoorFixed
    \/ SecondaryDoors
    \/ NextDoor
    \/ GenerateGarageDoors
    \/ MergeAndReturn
    \/ CallAgain

BuildSpec == BuildInit /\ [][BuildNext]_vars
\* find_door_position runs in one thread: its next step is taken whenever
\* there is one.
BuildFairSpec == BuildSpec /\ WF_vars(FindDoorAttempt) /\ WF_vars(FindDoorFixed)

(***************************************************************************)
(* Claims about generate_building                                          *)
(***************************************************************************)
\* Rectangle of an opening on its facade: horizontal span x vertical span.
WindowRect(w) == [l |-> WinX(w) - w.size[1] \div 2, r |-> WinX(w) + w.size[1] \div 2,
                  b |-> w.position[3] - w.size[2] \div 2, t |-> w.position[3] + w.size[2] \div 2]
DoorRect(d) == [l |-> d.x - d.width \div 2, r |-> d.x + d.width \div 2,
                b |-> d.y - d.height \div 2, t |-> d.y + d.height \div 2]
RECURSIVE MapRect(_, _, _)
MapRect(seq, facade, isWindow) ==
    IF seq = <<>> THEN <<>>
    ELSE (IF isWindow
          THEN (IF Head(seq).facade = facade THEN <<WindowRect(Head(seq))>> ELSE <<>>)
          ELSE <<DoorRect(Head(seq))>>)
         \o MapRect(Tail(seq), facade, isWindow)
\* All openings of a returned building on one facade.
Openings(b, facade) ==
    MapRect(b.windows, facade, TRUE) \o MapRect(b.doors[facade], facade, FALSE)
    \o MapRect(OnFacade(b.garage_doors, facade), facade, FALSE)
RectsOverlap(a, c) == a.l < c.r /\ c.l < a.r /\ a.b < c.t /\ c.b < a.t
Returned == {results[k] : k \in 1..Len(results)}
BuildingFacadeWidth(b, facade) == FacadeWidth(facade, b.dimensions.width, b.dimensions.depth)

\* C4: on every facade of every returned building, no two openings
\* (windows, doors, utility doors, garage doors) have overlapping rectangles.
C4_OpeningsDisjoint ==
    \A b \in Returned : \A f \in Facades :
      LET o == Openings(b, f) IN
      \A i \in 1..Len(o) : \A j \in 1..Len(o) : i < j => ~RectsOverlap(o[i], o[j])

\* C5: no window, door or garage door of a returned building extends into the
\* corner-trim margin (the building's own corner_trim_width) of its facade.
C5_TrimRespected ==
    \A b \in Returned : \A f \in Facades :
      LET o == Openings(b, f)
          half == BuildingFacadeWidth(b, f) \div 2
      IN  \A i \in 1..Len(o) : /\ o[i].l >= -half + b.corner_trim_width
                               /\ o[i].r <= half - b.corner_trim_width

\* C7: two calls of generate_building with the same arguments return the
\* same record (dimensions, subtype, windows in order, doors, garage doors).
C7_SameResult == \A k \in 1..Len(results) : results[k] = results[1]
C7_Witness ==
    /\ Len(results) = MaxCalls
    /\ results[1].windows # <<>>
    /\ results[1].garage_doors # <<>>
    /\ \E f \in Facades : Len(results[1].doors[f]) >= 2

\* C8: every door of a returned building is separated from every window of
\* its facade, horizontally or vertically, by more than the 15 cm margin.
C8_DoorsClearWindows ==
    \A b \in Returned : \A f \in Facades :
      \A i \in 1..Len(b.doors[f]) : \A k \in 1..Len(b.windows) :
        b.windows[k].facade = f =>
          LET d == DoorRect(b.doors[f][i])
              w == WindowRect(b.windows[k])
          IN  \/ d.r + 15 < w.l \/ w.r + 15 < d.l \/ d.t + 15 < w.b \/ w.t + 15 < d.b

\* C9: find_door_position terminates; it makes at most 50 random tries, then
\* takes the first window-free position among 10%, 90%, 25%, 75%, 5%, 95% of
\* the range and the 5% position if there is none; what it returns lies in
\* [min_x, max_x] and the door is stored.
C9_Returned ==
    fd_ret.via # "none" =>
      LET fw == FacadeWidth(fd_ret.facade, dims.width, dims.depth)
          lo == -(fw \div 2) + 10 + 45
          hi == fw \div 2 - 10 - 45
          fixed == <<100, 900, 250, 750, 50, 950>>
          P(k) == lo + ((hi - lo) * fixed[k]) \div 1000
          over(x) == door_overlaps_window(x, door_y_position(dims.height), 90, 210,
                                          fd_ret.facade, windows)
          free == {k \in 1..6 : ~over(P(k))}
      IN  /\ lo <= fd_ret.x /\ fd_ret.x <= hi
          /\ fd_ret.attempts <= 50
          /\ fd_ret.via = "random" => ~over(fd_ret.x)
          /\ fd_ret.via # "random" =>
               /\ fd_ret.attempts = 50
               /\ \A k \in free : (\A j \in free : k <= j) => fd_ret.x = P(k)
               /\ free = {} => fd_ret.x = P(5)
          /\ doors[fd_ret.facade] # <<>>
          /\ doors[fd_ret.facade][1].x = fd_ret.x
C9_FindDoorTerminates ==
    /\ [](C9_Returned /\ fd_attempt <= 50)
    /\ (Finding ~> ~Finding)
C9_Witness == fd_ret.via = "fallback" /\ b_pc = "done"

CeilDiv(a, b) == -((-a) \div b)

\* _get_zone_distribution, in permille
_get_zone_distribution(zone_type) ==
    CASE zone_type = "residential" -> [building |-> 700, park |-> 200, plaza |-> 50, road |-> 50]
      [] zone_type = "commercial" -> [building |-> 800, park |-> 30, plaza |-> 150, road |-> 20]
      [] zone_type = "industrial" -> [building |-> 850, park |-> 20, plaza |-> 30, road |-> 100]
      [] zone_type = "mixed_use" -> [building |-> 750, park |-> 150, plaza |-> 70, road |-> 30]
      [] zone_type = "agricultural" -> [building |-> 150, park |-> 700, plaza |-> 50, road |-> 100]
      [] zone_type = "park" -> [building |-> 50, park |-> 900, plaza |-> 30, road |-> 20]
      [] zone_type = "restricted" -> [building |-> 0, park |-> 0, plaza |-> 0, road |-> 1000]
      [] OTHER -> [building |-> 700, park |-> 200, plaza |-> 50, road |-> 50]

\* zone_polygon.exterior.distance(cell_center) < d, for a rectangular zone
ExteriorDistanceLess(z, cx, cy, d) ==
    LET dx == Max(Max(z.min_x - cx, cx - z.max_x), 0)
        dy == Max(Max(z.min_y - cy, cy - z.max_y), 0)
    IN  IF dx = 0 /\ dy = 0
        THEN Min(Min(cx - z.min_x, z.max_x - cx), Min(cy - z.min_y, z.max_y - cy)) < d
        ELSE dx * dx + dy * dy < d * d

\* C20 mutant: narrow zones get edge cells as well.
is_edge_narrow_too(z, cx, cy) ==
    ExteriorDistanceLess(z, cx, cy, (GRID_CELL_SIZE * 3) \div 2)

\* is_edge of _determine_cell_type
is_edge(z, cx, cy) ==
    LET min_dimension == Min(z.max_x - z.min_x, z.max_y - z.min_y) IN
    IF min_dimension < GRID_CELL_SIZE * 3 THEN FALSE
    ELSE ExteriorDistanceLess(z, cx, cy, (GRID_CELL_SIZE * 3) \div 2)

\* The grid of cell origins of a zone: columns x (outer loop), rows y (inner loop).
GridMinX(z) == (z.min_x \div GRID_CELL_SIZE) * GRID_CELL_SIZE
GridMinY(z) == (z.min_y \div GRID_CELL_SIZE) * GRID_CELL_SIZE
GridCols(z) == CeilDiv(z.max_x, GRID_CELL_SIZE) - z.min_x \div GRID_CELL_SIZE
GridRows(z) == CeilDiv(z.max_y, GRID_CELL_SIZE) - z.min_y \div GRID_CELL_SIZE
CellX(z, k) == GridMinX(z) + (k \div GridRows(z)) * GRID_CELL_SIZE
CellY(z, k) == GridMinY(z) + (k % GridRows(z)) * GRID_CELL_SIZE
CellCenterX(z, k) == CellX(z, k) + GRID_CELL_SIZE \div 2
CellCenterY(z, k) == CellY(z, k) + GRID_CELL_SIZE \div 2

\* polygon.intersects(cell_polygon): closed rectangles sharing a point
CellIntersects(z, k) ==
    /\ CellX(z, k) <= z.max_x /\ z.min_x <= CellX(z, k) + GRID_CELL_SIZE
    /\ CellY(z, k) <= z.max_y /\ z.min_y <= CellY(z, k) + GRID_CELL_SIZE

CellIsEdge(z, k) ==
    /\ CellIntersects(z, k)
    /\ is_edge(z, CellCenterX(z, k), CellCenterY(z, k))
    /\ _get_zone_distribution(z.zone_type).road + _get_zone_distribution(z.zone_type).plaza > 0

\* _determine_cell_type of cell k: edge cells draw from rng = seeded_random(chunk_seed)
\* in loop order, interior cells from their own noise generator.
_determine_cell_type(z, k, seed) ==
    LET distribution == _get_zone_distribution(z.zone_type)
        cx == CellCenterX(z, k)
        cy == CellCenterY(z, k)
        drawn == Cardinality({j \in 0..(k - 1) : CellIsEdge(z, j)})
        noise_seed == HashSeed(seed, TruncDiv(cx, 100), TruncDiv(cy, 100))
        noise_value == random(noise_seed, 0)
    IN  IF CellIsEdge(z, k)
        THEN (IF random(seed, drawn) * (distribution.road + distribution.plaza)
                    < distribution.road * 1000
              THEN "road" ELSE "plaza")
        ELSE IF noise_value < distribution.building THEN "building"
        ELSE IF noise_value < distribution.building + distribution.park THEN "park"
        ELSE "plaza"

Cell(z, k, seed) ==
    [type |-> _determine_cell_type(z, k, seed),
     position |-> <<CellCenterX(z, k), CellCenterY(z, k)>>]

RECURSIVE CellsFrom(_, _, _)
CellsFrom(z, k, seed) ==
    IF k >= GridCols(z) * GridRows(z) THEN <<>>
    ELSE (IF CellIntersects(z, k) THEN <<Cell(z, k, seed)>> ELSE <<>>) \o CellsFrom(z, k + 1, seed)

generate_city_grid(z, seed) == CellsFrom(z, 0, seed)

(***************************************************************************)
(* generation.py : _generate_structures_for_zones (the grid pass of        *)
(* generate_chunk)                                                         *)
(***************************************************************************)
GridZone(zt, geom, x0, x1, y0, y1, imp) ==
    [zone_type |-> zt, geometry |-> geom, min_x |-> x0, max_x |-> x1,
     min_y |-> y0, max_y |-> y1, importance |-> imp]

\* The hub zones of generate_chunk, shortened along the ring: the restricted
\* corridor, the industrial strips on both sides of it, the commercial block
\* lying inside an industrial strip and the mixed-use strip outside it.
HubRestricted  == GridZone("restricted", "Polygon", 0, 20000, -8000, 8000, 500)
HubIndustrialN == GridZone("industrial", "Polygon", 0, 20000, 8000, 16000, 500)
HubIndustrialS == GridZone("industrial", "Polygon", 0, 20000, -16000, -8000, 500)
HubCommercial  == GridZone("commercial", "Polygon", 6000, 14000, 8000, 16000, 500)
HubMixedUse    == GridZone("mixed_use", "Polygon", 0, 20000, 16000, 24000, 500)
\* Other zones a caller can pass: two blocks wide enough for edge detection
\* (one on the cell grid, one 10 m off it), an agricultural zone, a zone
\* without coordinates and one that is no Polygon.
WideCommercial == GridZone("commercial", "Polygon", 0, 20000, 0, 20000, 1000)
OffsetCommercial == GridZone("commercial", "Polygon", 1000, 26000, 1000, 26000, 500)
Agricultural   == GridZone("agricultural", "Polygon", 0, 20000, 8000, 16000, 500)
NoCoordinates  == GridZone("industrial", "Polygon", 0, 0, 0, 0, 500)
PointZone      == GridZone("industrial", "Point", 0, 20000, 8000, 16000, 500)
GridZoneLists ==
    {<<HubRestricted, HubIndustrialS, HubIndustrialN>>,
     <<HubIndustrialN, HubCommercial, HubMixedUse>>,
     <<Agricultural, WideCommercial, OffsetCommercial>>,
     <<NoCoordinates, PointZone, HubIndustrialN>>}

\* zone_coordinates is empty
CoordinatesEmpty(z) == z.min_x = z.max_x /\ z.min_y = z.max_y

\* The `continue` checks at the head of the zone loop.
GridZoneSkipped(z) ==
    \/ z.zone_type = "restricted"
    \/ z.zone_type \notin {"industrial", "commercial", "mixed_use", "mixed-use"}
    \/ z.geometry # "Polygon"
    \/ CoordinatesEmpty(z)

\* C3 mutant: only the centre of the building is tested.
all_within_centre(z, building_x, building_y, building_width, building_depth) ==
    PolygonContainsPoint(z, building_x, building_y)

\* all(zone_polygon_shapely.contains(corner) for corner in corners); the
\* half sizes are exact halves, so coordinates are compared doubled.
all_within(z, building_x, building_y, building_width, building_depth) ==
    /\ 2 * z.min_x < 2 * building_x - building_width
    /\ 2 * building_x + building_width < 2 * z.max_x
    /\ 2 * z.min_y < 2 * building_y - building_depth
    /\ 2 * building_y + building_depth < 2 * z.max_y

GridInit ==
    /\ g_pc = "caller"
    /\ g_zones = <<>>
    /\ chunk_seed = 0
    /\ g_idx = 1
    /\ grid_cells = <<>>
    /\ g_cell = 1
    /\ g_structures = <<>>
    /\ g_raised = {}
    /\ ScatterIdle
    /\ BuildIdle
    /\ FlareIdle
    /\ FilterIdle

\* A caller (generate_chunk) passes its zones and the chunk seed.
GridCall ==
    /\ g_pc = "caller"
    /\ g_zones' \in GridZoneLists
    /\ chunk_seed' \in Seeds
    /\ g_pc' = "zones"
    /\ UNCHANGED <<g_idx, grid_cells, g_cell, g_structures, g_raised>>
    /\ UNCHANGED <<scVars, bVars, flVars, fwVars>>

\* for zone in zones: skip it, or lay the grid over it.
GridStartZone ==
    /\ g_pc = "zones"
    /\ g_idx <= Len(g_zones)
    /\ LET z == g_zones[g_idx] IN
       IF GridZoneSkipped(z)
       THEN /\ g_idx' = g_idx + 1
            /\ UNCHANGED <<g_pc, grid_cells, g_cell>>
       ELSE /\ grid_cells' = generate_city_grid(z, chunk_seed)
            /\ g_cell' = 1
            /\ g_pc' = "cells"
            /\ UNCHANGED g_idx
    /\ UNCHANGED <<g_zones, chunk_seed, g_structures, g_raised>>
    /\ UNCHANGED <<scVars, bVars, flVars, fwVars>>

\* The body of "for cell in grid_cells": <<the structure appended>> for a
\* "building" cell whose building has all four corners in the zone, else <<>>.
CellStructure(z, zone_index, cell, seed) ==
    LET cell_x == TruncDiv(cell.position[1], GRID_CELL_SIZE)
        cell_y == TruncDiv(cell.position[2], GRID_CELL_SIZE)
        building_seed == get_building_seed(seed, cell_x, cell_y)
        d == _get_building_dimensions(z.zone_type, z.importance, building_seed, 0)
        trim == uniform(10, 50, random(building_seed, d.n))
    IN  IF cell.type = "building"
           /\ all_within(z, cell.position[1], cell.position[2], d.width, d.depth)
        THEN <<[id |-> <<cell_x, cell_y>>, zone |-> zone_index,
                type |-> "building", structure_type |-> "building",
                is_procedural |-> TRUE,
                building_subtype |-> d.building_subtype,
                position |-> cell.position,
                dimensions |-> [width |-> d.width, depth |-> d.depth, height |-> d.height],
                windows |-> _generate_window_grid(d.width, d.depth, d.height,
                                                  building_seed, d.building_subtype, trim),
                procedural_seed |-> building_seed]>>
        ELSE <<>>

\* for cell in grid_cells: a "building" cell gets a building, which is kept
\* when all four corners lie in the zone.
GridCell ==
    /\ g_pc = "cells"
    /\ g_cell <= Len(grid_cells)
    /\ g_structures' = g_structures
                          \o CellStructure(g_zones[g_idx], g_idx, grid_cells[g_cell], chunk_seed)
    /\ g_cell' = g_cell + 1
    /\ UNCHANGED <<g_pc, g_zones, chunk_seed, g_idx, grid_cells, g_raised>>
    /\ UNCHANGED <<scVars, bVars, flVars, fwVars>>

MaxRaises == 1      \* exceptions raised during one call of the grid pass

\* C21 mutant: the exception is caught by generate_chunk only, which returns
\* no structures.
ZoneExceptionHandler_outer(structs) == <<>>

\* except Exception as e: print(...); continue -- the list built so far stays.
ZoneExceptionHandler(structs) == structs

\* An exception raised inside the try block of a zone: by generate_city_grid,
\* or while the building of a cell is generated.  The handler goes on with
\* the next zone.
GridRaise ==
    /\ Cardinality(g_raised) < MaxRaises
    /\ \/ g_pc = "zones" /\ g_idx <= Len(g_zones) /\ ~GridZoneSkipped(g_zones[g_idx])
       \/ g_pc = "cells" /\ g_cell <= Len(grid_cells) /\ grid_cells[g_cell].type = "building"
    /\ g_structures' = ZoneExceptionHandler(g_structures)
    /\ g_raised' = g_raised \cup {g_idx}
    /\ g_pc' = "zones"
    /\ g_idx' = g_idx + 1
    /\ UNCHANGED <<g_zones, chunk_seed, grid_cells, g_cell>>
    /\ UNCHANGED <<scVars, bVars, flVars, fwVars>>

\* The cell loop is over: next zone.
GridEndZone ==
    /\ g_pc = "cells"
    /\ g_cell > Len(grid_cells)
    /\ g_pc' = "zones"
    /\ g_idx' = g_idx + 1
    /\ UNCHANGED <<g_zones, chunk_seed, grid_cells, g_cell, g_structures, g_raised>>
    /\ UNCHANGED <<scVars, bVars, flVars, fwVars>>

\* return structures
GridReturn ==
    /\ g_pc = "zones"
    /\ g_idx > Len(g_zones)
    /\ g_pc' = "returned"
    /\ UNCHANGED <<g_zones, chunk_seed, g_idx, grid_cells, g_cell, g_structures, g_raised>>
    /\ UNCHANGED <<scVars, bVars, flVars, fwVars>>

GridNext == GridCall \/ GridStartZone \/ GridCell \/ GridRaise \/ GridEndZone \/ GridReturn

GridSpec == GridInit /\ [][GridNext]_vars

\* Both placement passes: a run is either a scatter call or a grid call.
PlacementInit == ScatterInit \/ GridInit
PlacementNext == StartZone \/ Attempt \/ EndZone \/ ScatterReturn
                 \/ GridCall \/ GridStartZone \/ GridCell \/ GridRaise \/ GridEndZone
                 \/ GridReturn
PlacementSpec == PlacementInit /\ [][PlacementNext]_vars

(***************************************************************************)
(* grid.py : generate_city_grid called on its own                          *)
(***************************************************************************)
\* Restricted corridors: the 20 m corridor of an ordinary chunk (shortened
\* along the ring) and a square wide enough to have interior cells.
NarrowRestricted == GridZone("restricted", "Polygon", 0, 20000, -1000, 1000, 500)
WideRestricted   == GridZone("restricted", "Polygon", 0, 20000, 0, 20000, 500)
CityGridZones ==
    {HubRestricted, NarrowRestricted, WideRestricted, HubIndustrialN, WideCommercial}

CityGridInit ==
    /\ g_pc = "grid_caller"
    /\ g_zones = <<>>
    /\ chunk_seed = 0
    /\ g_idx = 1
    /\ grid_cells = <<>>
    /\ g_cell = 1
    /\ g_structures = <<>>
    /\ g_raised = {}
    /\ ScatterIdle
    /\ BuildIdle
    /\ FlareIdle
    /\ FilterIdle

\* cells = generate_city_grid(zone_polygon, zone_type, zone_importance, chunk_seed)
GenerateCityGrid ==
    /\ g_pc = "grid_caller"
    /\ \E z \in CityGridZones, seed \in Seeds :
          /\ g_zones' = <<z>>
          /\ chunk_seed' = seed
          /\ grid_cells' = generate_city_grid(z, seed)
    /\ g_pc' = "grid_returned"
    /\ UNCHANGED <<g_idx, g_cell, g_structures, g_raised>>
    /\ UNCHANGED <<scVars, bVars, flVars, fwVars>>

\* The caller is done with the cells and may call again.
CityGridDone ==
    /\ g_pc = "grid_returned"
    /\ g_pc' = "grid_caller"
    /\ g_zones' = <<>>
    /\ chunk_seed' = 0
    /\ grid_cells' = <<>>
    /\ UNCHANGED <<g_idx, g_cell, g_structures, g_raised>>
    /\ UNCHANGED <<scVars, bVars, flVars, fwVars>>

CityGridNext == GenerateCityGrid \/ CityGridDone

CityGridSpec == CityGridInit /\ [][CityGridNext]_vars

(***************************************************************************)
(* Claims about building placement                                         *)
(***************************************************************************)
GridRect(s) ==
    [x0 |-> 2 * s.position[1] - s.dimensions.width, x1 |-> 2 * s.position[1] + s.dimensions.width,
     y0 |-> 2 * s.position[2] - s.dimensions.depth, y1 |-> 2 * s.position[2] + s.dimensions.depth]

\* C2: in the structures returned by generate_chunk's grid pass no two
\* buildings have the same position, no two footprints overlap, and two
\* footprints that do not touch are at least 5 m apart.  (GridRect is in
\* doubled centimetres, so 5 m is 1000.)
C2_GridSpacing ==
    g_pc = "returned" =>
        \A i, j \in 1..Len(g_structures) :
            i < j =>
                /\ g_structures[i].position # g_structures[j].position
                /\ ~RectOverlap(GridRect(g_structures[i]), GridRect(g_structures[j]))
                /\ \/ RectDist2(GridRect(g_structures[i]), GridRect(g_structures[j])) = 0
                   \/ RectDist2(GridRect(g_structures[i]), GridRect(g_structures[j])) >= 1000 * 1000

\* C1: in the scatter pass of one zone any two accepted footprints touch or
\* are at least 5 m apart, and never overlap in area.
C1_ScatterSpacing ==
    \A i, j \in 1..Len(placed) :
        i < j =>
            /\ ~RectOverlap(placed[i], placed[j])
            /\ \/ RectTouch(placed[i], placed[j])
               \/ RectDist2(placed[i], placed[j]) >= 500 * 500

\* Corners of a footprint centred at (x, y), compared in doubled centimetres.
CornersStrictlyInside(z, x, y, width, depth) ==
    \A cx \in {2 * x - width, 2 * x + width}, cy \in {2 * y - depth, 2 * y + depth} :
        /\ 2 * z.min_x < cx /\ cx < 2 * z.max_x
        /\ 2 * z.min_y < cy /\ cy < 2 * z.max_y

\* C3: every structure emitted for a zone, by the grid pass or by the scatter
\* pass, has its four footprint corners strictly inside that zone's polygon.
C3_CornersInside ==
    /\ \A i \in 1..Len(g_structures) :
          LET s == g_structures[i] IN
          CornersStrictlyInside(g_zones[s.zone], s.position[1], s.position[2],
                                s.dimensions.width, s.dimensions.depth)
    /\ \A i \in 1..Len(structures) :
          LET s == structures[i] IN
          CornersStrictlyInside(sc_zones[s.zone], s.x, s.y, s.width, s.depth)

\* A zone whose cell loop is over, with a building emitted and a "building"
\* cell whose building was dropped.
C3_Witness ==
    /\ g_pc = "cells" /\ g_cell > Len(grid_cells)
    /\ \E i \in 1..Len(g_structures) : g_structures[i].zone = g_idx
    /\ \E k \in 1..Len(grid_cells) :
          /\ grid_cells[k].type = "building"
          /\ \A i \in 1..Len(g_structures) :
                ~(g_structures[i].zone = g_idx /\ g_structures[i].position = grid_cells[k].position)

\* C6: the scatter loop of a zone terminates; it runs exactly while fewer than
\* target_count footprints are accepted and fewer than 30 * target_count
\* attempts are made, and every iteration adds one to attempts.
C6_LoopTerminates ==
    /\ [](sc_pc = "loop" =>
            /\ attempts = sc_iter
            /\ attempts <= 30 * target_count
            /\ Len(placed) <= target_count)
    /\ [][sc_pc = "loop" /\ sc_pc' = "loop" =>
            /\ Len(placed) < target_count /\ attempts < 30 * target_count
            /\ sc_iter' = sc_iter + 1 /\ attempts' = attempts + 1]_vars
    /\ [][sc_pc = "loop" /\ sc_pc' # "loop" =>
            Len(placed) = target_count \/ attempts = 30 * target_count]_vars
    /\ (sc_pc = "loop" ~> sc_pc = "next_zone")

\* The loop of a zone ended on the attempt limit.
C6_Witness ==
    /\ sc_pc = "next_zone" /\ sc_idx > 1
    /\ target_count > 0
    /\ attempts = 30 * target_count
    /\ Len(placed) < target_count

(***************************************************************************)
(* Claims about doors, garage doors and dimensions of generate_building    *)
(***************************************************************************)
\* C11: the bottom edge of every door is 1 m above the building base, i.e.
\* its vertical centre is -height/2 + 1.0 + door height/2.
C11_DoorBottomAtOneMetre ==
    \A b \in Returned : \A f \in Facades :
        \A k \in 1..Len(b.doors[f]) :
            b.doors[f][k].y = (-(b.dimensions.height \div 2) + 100) + b.doors[f][k].height \div 2

Industrial(b) == b.building_subtype \in {"warehouse", "factory"}

\* C12: every warehouse or factory has a door on the front facade and a door
\* on the back facade.
C12_IndustrialDoorsBothSides ==
    \A b \in Returned :
        Industrial(b) => b.doors["front"] # <<>> /\ b.doors["back"] # <<>>

\* A returned factory whose main door is at the back and whose front door
\* was added by the backfill.
C12_Witness ==
    \E b \in Returned :
        /\ b.building_subtype = "factory"
        /\ \E k \in 1..Len(b.doors["back"]) : b.doors["back"][k].type = "main"
        /\ \E k \in 1..Len(b.doors["front"]) : b.doors["front"][k].type = "secondary"

\* C13: every warehouse or factory has a garage or truck-bay door on the
\* front facade and one on the back facade.
C13_IndustrialGaragesBothSides ==
    \A b \in Returned :
        Industrial(b) =>
            /\ OnFacade(b.garage_doors, "front") # <<>>
            /\ OnFacade(b.garage_doors, "back") # <<>>

StandardDoors(b, f) == SelectSeq(b.doors[f], LAMBDA d : d.type = "standard")
TruckBays(b, f) == SelectSeq(OnFacade(b.garage_doors, f), LAMBDA g : g.type = "truck_bay")

\* Where the door paired with truck bay g belongs on a facade of width fw.
PairedDoorX(g, fw, trim) ==
    LET right == g.x + g.width \div 2 + 30 + 45
        left == g.x - g.width \div 2 - 30 - 45
        max_x == fw \div 2 - trim - 45
        min_x == -(fw \div 2) + trim + 45
    IN  IF right + 45 <= max_x THEN right
        ELSE IF left - 45 >= min_x THEN left
        ELSE min_x

PermittedHeights(building_subtype) ==
    CASE building_subtype = "warehouse" -> {500, 1000, 1200}
      [] building_subtype = "factory" -> {500, 800, 1000, 1200, 1600, 2000}
      [] building_subtype \in {"apartment", "campus"} -> {1200, 1600, 2000}
      [] building_subtype = "house" -> {800, 1200}
      [] building_subtype = "retail" -> {2000}
      [] building_subtype = "park_structure" -> {400, 800}
      [] OTHER -> 0..2000

\* C15: the height of every generated building is in the permitted set of
\* its subtype and is at most 20 m.
C15_HeightPermitted ==
    \A b \in Returned :
        /\ b.dimensions.height \in PermittedHeights(b.building_subtype)
        /\ b.dimensions.height <= 2000

\* C16: the height of every generated building is a whole multiple of the
\* 4 m floor height.
C16_HeightMultipleOfFloor ==
    \A b \in Returned : b.dimensions.height % 400 = 0

\* The footprint side the claim prescribes for a base value and an importance.
ScaledAndClamped(base, zone_importance, lo, hi) ==
    LET scaled == (base * (700 + (600 * zone_importance) \div 1000)) \div 1000
    IN  IF scaled < lo THEN lo ELSE IF scaled > hi THEN hi ELSE scaled

\* C17: width and depth of a returned building are the base values of its
\* subtype times 0.7 + 0.6 * importance, clamped to [10 m, 80 m]; its height
\* is the base height, the same for every importance.
C17_FootprintScaledAndClamped ==
    \A b \in Returned :
        LET base == BaseDimensions(b_in.zone_type, b_in.building_seed, 0)
        IN  /\ b.dimensions.width = ScaledAndClamped(base.base_width, b_in.zone_importance, 1000, 8000)
            /\ b.dimensions.depth = ScaledAndClamped(base.base_depth, b_in.zone_importance, 1000, 8000)
            /\ b.dimensions.height = base.height
            /\ \A zi \in BuildZones :
                  zi[1] = b_in.zone_type =>
                      _get_building_dimensions(zi[1], zi[2], b_in.building_seed, 0).height
                          = b.dimensions.height

\* A returned building of a zone of importance 1 whose scaled width was cut
\* back to 80 m, and whose depth is 1.3 times the base depth.
C17_Witness ==
    \E b \in Returned :
        LET base == BaseDimensions(b_in.zone_type, b_in.building_seed, 0)
        IN  /\ b_in.zone_importance = 1000
            /\ (base.base_width * 1300) \div 1000 > 8000
            /\ b.dimensions.width = 8000
            /\ b.dimensions.depth = (base.base_depth * 1300) \div 1000
            /\ b.dimensions.depth < 8000

(***************************************************************************)
(* stations.py: station flares; generation.calculate_restricted_zone_width *)
(* Ring positions, distances and widths are whole metres here.             *)
(***************************************************************************)
RING_CIRCUMFERENCE == 264000000
BASE_WIDTH == 400
BASE_LEVELS == 5

PILLAR_ELEVATOR_HUB ==
    [name |-> "pillar_elevator", max_flare_radius |-> 12500, flare_length |-> 50000,
     max_levels |-> 15]

PILLAR_HUB_POSITIONS ==
    <<0, 22000000, 44000000, 66000000, 88000000, 110000000, 132000000,
      154000000, 176000000, 198000000, 220000000, 242000000>>

PILLAR_STATIONS ==
    [k \in 1..Len(PILLAR_HUB_POSITIONS) |->
        [position |-> PILLAR_HUB_POSITIONS[k], station_type |-> PILLAR_ELEVATOR_HUB]]

wrap_position(position) ==
    ((position % RING_CIRCUMFERENCE) + RING_CIRCUMFERENCE) % RING_CIRCUMFERENCE

distance_with_wrapping(pos1, pos2) ==
    LET direct == Abs(wrap_position(pos2) - wrap_position(pos1))
        wrapped == RING_CIRCUMFERENCE - direct
    IN  Min(direct, wrapped)

\* None, or [station, distance] of the nearest station whose flare reaches
\* the position; of two equally near stations the loop keeps the first.
NoStation ==
    [station |-> [position |-> -1,
                  station_type |-> [name |-> "none", max_flare_radius |-> 0,
                                    flare_length |-> 0, max_levels |-> 0]],
     distance |-> -1]
find_nearest_station(position) ==
    LET dist(k) == distance_with_wrapping(wrap_position(position), PILLAR_STATIONS[k].position)
        in_range == {k \in DOMAIN PILLAR_STATIONS :
                        dist(k) <= PILLAR_STATIONS[k].station_type.flare_length \div 2}
    IN  IF in_range = {} THEN NoStation
        ELSE LET nearest == CHOOSE k \in in_range :
                                \A j \in in_range : dist(k) < dist(j) \/ (dist(k) = dist(j) /\ k <= j)
             IN  [station |-> PILLAR_STATIONS[nearest], distance |-> dist(nearest)]

\* math.cos at whole degrees 0..90, in units of 1/10000.
CosTable ==
    <<
      10000, 9998, 9994, 9986, 9976, 9962, 9945, 9925, 9903, 9877, 9848, 9816, 9781,
      9744, 9703, 9659, 9613, 9563, 9511, 9455, 9397, 9336, 9272, 9205, 9135, 9063,
      8988, 8910, 8829, 8746, 8660, 8572, 8480, 8387, 8290, 8192, 8090, 7986, 7880,
      7771, 7660, 7547, 7431, 7314, 7193, 7071, 6947, 6820, 6691, 6561, 6428, 6293,
      6157, 6018, 5878, 5736, 5592, 5446, 5299, 5150, 5000, 4848, 4695, 4540, 4384,
      4226, 4067, 3907, 3746, 3584, 3420, 3256, 3090, 2924, 2756, 2588, 2419, 2250,
      2079, 1908, 1736, 1564, 1392, 1219, 1045, 872, 698, 523, 349, 175, 0
    >>

CosDeg(q) == IF q <= 90 THEN CosTable[q + 1] ELSE -CosTable[181 - q]

\* math.cos(math.pi * num / den) for 0 <= num <= den, in units of 1/10000:
\* the table value, interpolated between whole degrees.
cos_pi(num, den) ==
    LET q == (180 * num) \div den
        r == (180 * num) % den
    IN  IF r = 0 THEN CosDeg(q)
        ELSE CosDeg(q) + ((CosDeg(q + 1) - CosDeg(q)) * r) \div den

\* C18 mutant: the cosine enters with the wrong sign.
flare_contribution_inverted(num, den) == 10000 - cos_pi(num, den)

\* flare_contribution = (1.0 + math.cos(math.pi * normalized_distance)) / 2.0,
\* in units of 1/20000, for normalized_distance = num / den.
flare_contribution(num, den) == 10000 + cos_pi(num, den)

plateau_radius(station_type) == IF station_type = PILLAR_ELEVATOR_HUB THEN 2500 ELSE 0

calculate_flare_width(position) ==
    LET station_info == find_nearest_station(position) IN
    IF station_info = NoStation THEN BASE_WIDTH
    ELSE LET station_type == station_info.station.station_type
             distance == station_info.distance
             flare_range == station_type.flare_length \div 2
             effective_range == flare_range - plateau_radius(station_type)
             adjusted_distance == Max(distance - plateau_radius(station_type), 0)
             contribution == IF effective_range <= 0 THEN flare_contribution(1, 1)
                             ELSE flare_contribution(adjusted_distance, effective_range)
             max_width == station_type.max_flare_radius * 2
         IN  IF distance <= flare_range
             THEN (IF plateau_radius(station_type) > 0 /\ distance <= plateau_radius(station_type)
                   THEN station_type.max_flare_radius * 2
                   ELSE BASE_WIDTH + ((max_width - BASE_WIDTH) * contribution) \div 20000)
             ELSE BASE_WIDTH

calculate_flare_levels(position) ==
    LET station_info == find_nearest_station(position) IN
    IF station_info = NoStation THEN BASE_LEVELS
    ELSE LET station_type == station_info.station.station_type
             distance == station_info.distance
             flare_range == station_type.flare_length \div 2
             additional_levels == station_type.max_levels - BASE_LEVELS
         IN  IF distance <= flare_range
             THEN BASE_LEVELS
                  + (additional_levels * flare_contribution(distance, flare_range)) \div 20000
             ELSE BASE_LEVELS

base_half_width == 10

\* C19 mutant: the two innermost steps are exchanged.
zone_half_width_swapped(distance, flare_range) ==
    IF distance * 100 <= 10 * flare_range THEN 60
    ELSE IF distance * 100 <= 20 * flare_range THEN 80
    ELSE IF distance * 100 <= 30 * flare_range THEN 50
    ELSE IF distance * 100 <= 40 * flare_range THEN 40
    ELSE base_half_width

\* The if / elif chain on distance_percentage = distance / flare_range.
zone_half_width(distance, flare_range) ==
    IF distance * 100 <= 10 * flare_range THEN 80
    ELSE IF distance * 100 <= 20 * flare_range THEN 60
    ELSE IF distance * 100 <= 30 * flare_range THEN 50
    ELSE IF distance * 100 <= 40 * flare_range THEN 40
    ELSE base_half_width

calculate_restricted_zone_width(x_position) ==
    LET station_result == find_nearest_station(x_position) IN
    IF station_result = NoStation THEN base_half_width
    ELSE LET flare_range == station_result.station.station_type.flare_length \div 2
         IN  IF station_result.distance >= flare_range THEN base_half_width
             ELSE zone_half_width(station_result.distance, flare_range)

\* ---- bounds and inputs of the flare model ----
FlareStep == 1250    \* distance between two sampled ring positions (m)
FlareSteps == 24     \* samples on each side of an anchor
\* hub 0, hub 1 and the seam of the ring seen from its far end
FlareAnchors == {PILLAR_HUB_POSITIONS[1], PILLAR_HUB_POSITIONS[2], RING_CIRCUMFERENCE}
FlarePositions == {a + k * FlareStep : a \in FlareAnchors, k \in (-FlareSteps)..FlareSteps}

FlareInit ==
    /\ ScatterIdle
    /\ BuildIdle
    /\ GridIdle
    /\ FilterIdle
    /\ fl_pc = "caller"
    /\ ring_position = 0
    /\ fl_width = 0
    /\ fl_levels = 0
    /\ fl_half_width = 0

\* A caller (generate_chunk and its helpers) picks the position to ask about.
FlareCall ==
    /\ fl_pc \in {"caller", "done"}
    /\ \E p \in FlarePositions : ring_position' = p
    /\ fl_pc' = "width"
    /\ fl_width' = 0
    /\ fl_levels' = 0
    /\ fl_half_width' = 0
    /\ UNCHANGED <<scVars, bVars, gVars, fwVars>>

CalculateFlareWidth ==
    /\ fl_pc = "width"
    /\ fl_width' = calculate_flare_width(ring_position)
    /\ fl_pc' = "levels"
    /\ UNCHANGED <<ring_position, fl_levels, fl_half_width>>
    /\ UNCHANGED <<scVars, bVars, gVars, fwVars>>

CalculateFlareLevels ==
    /\ fl_pc = "levels"
    /\ fl_levels' = calculate_flare_levels(ring_position)
    /\ fl_pc' = "restricted"
    /\ UNCHANGED <<ring_position, fl_width, fl_half_width>>
    /\ UNCHANGED <<scVars, bVars, gVars, fwVars>>

CalculateRestrictedZoneWidth ==
    /\ fl_pc = "restricted"
    /\ fl_half_width' = calculate_restricted_zone_width(ring_position)
    /\ fl_pc' = "done"
    /\ UNCHANGED <<ring_position, fl_width, fl_levels>>
    /\ UNCHANGED <<scVars, bVars, gVars, fwVars>>

FlareNext ==
    \/ FlareCall
    \/ CalculateFlareWidth
    \/ CalculateFlareLevels
    \/ CalculateRestrictedZoneWidth

FlareSpec == FlareInit /\ [][FlareNext]_vars

(***************************************************************************)
(* structure_generator.py : _make_windows, the doors of a placed building  *)
(* and _filter_windows_by_openings (centimetres)                           *)
(***************************************************************************)
\* int(round(a / b)) for a >= 0, b > 0: Python rounds halves to even.
RoundDiv(a, b) ==
    LET q == a \div b
        r == a % b
    IN  IF 2 * r < b THEN q
        ELSE IF 2 * r > b THEN q + 1
        ELSE IF q % 2 = 0 THEN q ELSE q + 1

\* win_z of the window row of floor floor_idx
win_z(height, floor_idx) ==
    LET foundation == Min(50, height \div 10)
        body_height == height - foundation
        base == foundation + floor_idx * 400
        top == Min(base + 400, foundation + body_height)
        desired_center == top - 80
        min_center == base + 80 \div 2 + 10
        max_center == top - 80 \div 2 - 10
        center == IF max_center < min_center THEN (base + top) \div 2
                  ELSE Max(min_center, Min(desired_center, max_center))
    IN  center - (foundation + body_height \div 2)

ScatterWindow(facade, x, z) ==
    [facade |-> facade, position |-> <<x, 0, z>>, size |-> <<150, 80>>]

\* The twelve windows of one floor: for each of the offsets -0.3, 0, 0.3 a
\* front and a back window, then for each offset a left and a right one.
FloorRow(width, depth, z) ==
    LET fb(ox) == <<ScatterWindow("front", (ox * width) \div 10, z),
                    ScatterWindow("back", (ox * width) \div 10, z)>>
        sd(ox) == <<ScatterWindow("left", (ox * depth) \div 10, z),
                    ScatterWindow("right", (ox * depth) \div 10, z)>>
    IN  fb(-3) \o fb(0) \o fb(3) \o sd(-3) \o sd(0) \o sd(3)

RECURSIVE FloorRows(_, _, _, _, _)
FloorRows(width, depth, height, floor_idx, floor_count) ==
    IF floor_idx >= floor_count THEN <<>>
    ELSE FloorRow(width, depth, win_z(height, floor_idx))
         \o FloorRows(width, depth, height, floor_idx + 1, floor_count)

_make_windows(width, depth, height) ==
    LET foundation == Min(50, height \div 10)
        body_height == height - foundation
    IN  IF body_height <= 0 THEN <<>>
        ELSE FloorRows(width, depth, height, 0, Max(1, RoundDiv(body_height, 400)))

has_truck_bay(class_name) ==
    class_name \in {"standard_warehouse_bar", "cross_dock_facility", "vertical_logistics_block"}

\* main_door_y and truck_door_y: door centres relative to the building centre
building_center(height) ==
    LET foundation == Min(50, height \div 10)
    IN  foundation + (height - foundation) \div 2
main_door_y(height) == (100 + 220 \div 2) - building_center(height)
truck_door_y(height) == (100 + 350 \div 2) - building_center(height)

bay_count(width) == Max(1, Min(3, (width - 200) \div 550))
bay_x(width, i) == -(((bay_count(width) - 1) * 550) \div 2) + i * 550
util_x(width, cx) == IF 2 * (cx + 270 + 60) > width THEN cx - 270 ELSE cx + 270

\* model_garage_doors: one truck bay door per bay of a truck-bay class
TruckBayDoors(width, height, class_name) ==
    IF has_truck_bay(class_name)
    THEN [i \in 1..bay_count(width) |->
             [facade |-> "front", type |-> "truck_bay", width |-> 300, height |-> 350,
              x |-> bay_x(width, i - 1), y |-> truck_door_y(height)]]
    ELSE <<>>

\* model_doors["front"]: a utility door beside each bay, or the one main door
FrontDoors(width, height, class_name, door_x) ==
    IF has_truck_bay(class_name)
    THEN [i \in 1..bay_count(width) |->
             [facade |-> "front", type |-> "industrial_main", width |-> 120, height |-> 220,
              x |-> util_x(width, bay_x(width, i - 1)), y |-> main_door_y(height)]]
    ELSE <<[facade |-> "front", type |-> "industrial_main", width |-> 120, height |-> 220,
            x |-> door_x, y |-> main_door_y(height)]>>

\* rng.uniform(-max_offset * 0.4, max_offset * 0.4), or 0 for a narrow building
DoorXSamples(width) ==
    LET max_offset == Max(0, width \div 2 - 100)
    IN  IF max_offset > 0 THEN UniformSamples(-((max_offset * 4) \div 10), (max_offset * 4) \div 10)
        ELSE {0}

\* C28 mutant: the openings of every facade are compared with the window.
openings_of_any_facade(ds, gds, facade) == ds \o gds

\* openings_by_facade.get(facade, []): the doors, then the garage doors
openings_by_facade(ds, gds, facade) ==
    SelectSeq(ds, LAMBDA d : d.facade = facade) \o SelectSeq(gds, LAMBDA d : d.facade = facade)

\* horiz_overlap and vert_overlap of a window against one opening
horiz_overlap(win, op) ==
    LET wx == win.position[1]
        ww == win.size[1]
        margin_x == Max(100, ww \div 2)
        win_left == wx - ww \div 2
        win_right == wx + ww \div 2
        op_left == op.x - op.width \div 2
        op_right == op.x + op.width \div 2
    IN  ~(win_right + margin_x < op_left \/ win_left - margin_x > op_right)

vert_overlap(win, op) ==
    LET wy == win.position[3]
        wh == win.size[2]
        margin_z == 25
        op_bottom == op.y - op.height \div 2
        op_top == op.y + op.height \div 2
        win_bottom == wy - wh \div 2
        win_top == wy + wh \div 2
    IN  ~(win_top + margin_z < op_bottom \/ win_bottom - margin_z > op_top)

\* for op in openings: the first opening that overlaps ends the search
RECURSIVE overlap(_, _)
overlap(win, ops) ==
    IF ops = <<>> THEN FALSE
    ELSE IF horiz_overlap(win, Head(ops)) /\ vert_overlap(win, Head(ops)) THEN TRUE
    ELSE overlap(win, Tail(ops))

RECURSIVE _filter_windows_by_openings(_, _, _)
_filter_windows_by_openings(wins, ds, gds) ==
    IF wins = <<>> THEN <<>>
    ELSE (IF overlap(Head(wins), openings_by_facade(ds, gds, Head(wins).facade))
          THEN <<>> ELSE <<Head(wins)>>)
         \o _filter_windows_by_openings(Tail(wins), ds, gds)

\* Footprints the placement loop hands on (width x depth x height) and the
\* classes of the library.
FilterWidths == {size_def.width[1], size_def.width[2], 2000}
FilterDepths == {size_def.depth[1], size_def.depth[2]}
FilterHeights == {400, 800, 1200}

FilterInit ==
    /\ ScatterIdle
    /\ BuildIdle
    /\ GridIdle
    /\ FlareIdle
    /\ fw_pc = "caller"
    /\ fw_args = [width |-> 0, depth |-> 0, height |-> 0, class_name |-> "none", door_x |-> 0]
    /\ fw_windows = <<>>
    /\ model_doors = <<>>
    /\ model_garage_doors = <<>>
    /\ filtered = <<>>

\* A footprint was accepted: its doors and windows = _make_windows(...)
MakeOpenings ==
    /\ fw_pc = "caller"
    /\ \E width \in FilterWidths, depth \in FilterDepths, height \in FilterHeights,
          class_name \in ClassNames :
          \E door_x \in (IF has_truck_bay(class_name) THEN {0} ELSE DoorXSamples(width)) :
             /\ fw_args' = [width |-> width, depth |-> depth, height |-> height,
                            class_name |-> class_name, door_x |-> door_x]
             /\ fw_windows' = _make_windows(width, depth, height)
             /\ model_doors' = FrontDoors(width, height, class_name, door_x)
             /\ model_garage_doors' = TruckBayDoors(width, height, class_name)
    /\ fw_pc' = "made"
    /\ UNCHANGED filtered
    /\ UNCHANGED <<scVars, bVars, gVars, flVars>>

\* windows = _filter_windows_by_openings(windows, model_doors, model_garage_doors, width, depth)
FilterWindows ==
    /\ fw_pc = "made"
    /\ filtered' = _filter_windows_by_openings(fw_windows, model_doors, model_garage_doors)
    /\ fw_pc' = "returned"
    /\ UNCHANGED <<fw_args, fw_windows, model_doors, model_garage_doors>>
    /\ UNCHANGED <<scVars, bVars, gVars, flVars>>

\* The loop goes on to its next footprint.
FilterDone ==
    /\ fw_pc = "returned"
    /\ fw_pc' = "caller"
    /\ fw_args' = [width |-> 0, depth |-> 0, height |-> 0, class_name |-> "none", door_x |-> 0]
    /\ fw_windows' = <<>>
    /\ model_doors' = <<>>
    /\ model_garage_doors' = <<>>
    /\ filtered' = <<>>
    /\ UNCHANGED <<scVars, bVars, gVars, flVars>>

FilterNext == MakeOpenings \/ FilterWindows \/ FilterDone

FilterSpec == FilterInit /\ [][FilterNext]_vars

(***************************************************************************)
(* Claims about the station flares                                         *)
(***************************************************************************)
\* Wrapped distance from a ring position to the nearest of the stations.
NearestStationDistance(position) ==
    LET dist(k) == distance_with_wrapping(position, PILLAR_HUB_POSITIONS[k])
    IN  dist(CHOOSE k \in DOMAIN PILLAR_HUB_POSITIONS :
                 \A j \in DOMAIN PILLAR_HUB_POSITIONS : dist(k) <= dist(j))
InfluenceRange == PILLAR_ELEVATOR_HUB.flare_length \div 2
FlareDone == fl_pc = "done"

C19_RestrictedStepFunction ==
    FlareDone =>
        LET d == NearestStationDistance(ring_position)
        IN  /\ fl_half_width \in {80, 60, 50, 40, 10}
            /\ \A q \in FlarePositions :
                  NearestStationDistance(q) >= d =>
                      calculate_restricted_zone_width(q) <= fl_half_width
            /\ d >= InfluenceRange => fl_half_width = 10
            /\ d = 0 => fl_half_width = 80

\* A position inside the flare, beyond the four steps, already at the base
\* half-width.
C19_Witness ==
    /\ FlareDone
    /\ NearestStationDistance(ring_position) > 0
    /\ NearestStationDistance(ring_position) < InfluenceRange
    /\ fl_half_width = 10

(***************************************************************************)
(* Claims about the cell types of generate_city_grid                       *)
(***************************************************************************)
\* Type of a cell that is not treated as an edge cell: drawn from the
\* cell's own noise generator.
InteriorCellType(z, cell, seed) ==
    LET noise_value == random(HashSeed(seed, TruncDiv(cell.position[1], 100),
                                       TruncDiv(cell.position[2], 100)), 0)
        distribution == _get_zone_distribution(z.zone_type)
    IN  IF noise_value < distribution.building THEN "building"
        ELSE IF noise_value < distribution.building + distribution.park THEN "park"
        ELSE "plaza"
NarrowZone(z) == z.max_x - z.min_x < 15000 \/ z.max_y - z.min_y < 15000
NearBoundary(z, cell) == ExteriorDistanceLess(z, cell.position[1], cell.position[2], 7500)

RECURSIVE StructuresOfCells(_, _, _, _)
StructuresOfCells(z, zone_index, cells, seed) ==
    IF cells = <<>> THEN <<>>
    ELSE CellStructure(z, zone_index, Head(cells), seed)
         \o StructuresOfCells(z, zone_index, Tail(cells), seed)
\* All the buildings the grid pass emits for zone i when nothing is raised.
ZoneStructures(i) ==
    IF GridZoneSkipped(g_zones[i]) THEN <<>>
    ELSE StructuresOfCells(g_zones[i], i, generate_city_grid(g_zones[i], chunk_seed), chunk_seed)
EmittedFor(i) == SelectSeq(g_structures, LAMBDA st : st.zone = i)
IsPrefix(a, b) == Len(a) <= Len(b) /\ a = SubSeq(b, 1, Len(a))

DegenerateZone(z) == z.geometry # "Polygon" \/ z.points < 3 \/ ZoneArea(z) <= 0

\* C22: a zone whose polygon is empty, has fewer than 3 points or has no
\* area gets no building and raises no exception, and the zones after it
\* are still processed: the pass ends by returning, with every zone visited.
C22_DegenerateZoneSkipped ==
    /\ sc_pc # "raised"
    /\ \A i \in 1..Len(structures) : ~DegenerateZone(sc_zones[structures[i].zone])
    /\ sc_pc = "returned" => sc_idx = Len(sc_zones) + 1

\* C23: every structure returned by generate_chunk carries a doors map with
\* at least one door and a garage_doors list.
C23_StructuresCarryDoors ==
    \A i \in 1..Len(g_structures) :
        /\ "doors" \in DOMAIN g_structures[i]
        /\ "garage_doors" \in DOMAIN g_structures[i]
        /\ g_structures[i].doors # <<>>

\* C25: within one chunk's structure list the ids are pairwise distinct.
C25_IdsPairwiseDistinct ==
    \A i, j \in 1..Len(g_structures) :
        i # j => g_structures[i].id # g_structures[j].id

\* ---------------------------------------------------------------------
\* Claims about the scatter pass
\* ---------------------------------------------------------------------

\* The structures the scatter pass has emitted for zone i, in order.
PlacedIn(i) == SelectSeq(structures, LAMBDA st : st.zone = i)

FootprintOf(st) ==
    Footprint(get_building_class(st.building_class), st.x, st.y, st.width, st.depth)

\* C24: the list of accepted footprints is empty at the start of each
\* zone's placement pass and only appended to within that pass: while a zone
\* is being filled the list holds exactly the footprints accepted in that
\* zone, in order, so no footprint of another zone can reject a candidate.
C24_PlacedOnlyThisZone ==
    sc_pc = "loop" =>
        /\ Len(placed) = Len(PlacedIn(sc_idx))
        /\ \A k \in 1..Len(placed) : placed[k] = FootprintOf(PlacedIn(sc_idx)[k])

C24_Witness ==
    /\ sc_pc = "loop"
    /\ sc_idx = 2
    /\ PlacedIn(1) # <<>>
    /\ placed # <<>>
    /\ \E k \in 1..Len(placed) : SpacingRejects(FootprintOf(PlacedIn(1)[1]), placed[k], gap)

\* C30: the building class of every placed structure is drawn from the
\* class distribution of the zone's own zone type.
C30_ClassFromOwnZoneType ==
    \A i \in 1..Len(structures) :
        structures[i].building_class
            \in get_zone_distribution(sc_zones[structures[i].zone].zone_type)

\* C29: in a restricted zone every grid cell is classified as road.
C29_RestrictedCellsAreRoad ==
    (g_pc = "grid_returned" /\ g_zones[1].zone_type = "restricted") =>
        \A i \in 1..Len(grid_cells) : grid_cells[i].type = "road"

\* ---------------------------------------------------------------------
\* Claims about the openings of one building
\* ---------------------------------------------------------------------

\* floor_base of the floor a window was generated on
WindowFloorBase(w) ==
    w.position[3] - (WINDOW_TYPES(w.type).bottom + WINDOW_TYPES(w.type).top) \div 2

\* C27: on one facade and one floor, windows of different horizontal slots
\* do not overlap: two windows of one facade and floor either belong to the
\* same slot (same centre, different window types) or have their centres at
\* least one window width apart.
C27_WindowSlotsApart ==
    \A b \in Returned :
        \A i, j \in 1..Len(b.windows) :
            (/\ i < j
             /\ b.windows[i].facade = b.windows[j].facade
             /\ WindowFloorBase(b.windows[i]) = WindowFloorBase(b.windows[j]))
            => \/ /\ WinX(b.windows[i]) = WinX(b.windows[j])
                  /\ b.windows[i].type # b.windows[j].type
               \/ Abs(WinX(b.windows[i]) - WinX(b.windows[j])) >= WINDOW_WIDTH

\* A window conflicts with an opening when their horizontal spans are
\* within max(1 m, half the window width) of each other and their vertical
\* spans within 0.25 m.
Conflicts(win, op) ==
    /\ 2 * Abs(win.position[1] - op.x)
          <= win.size[1] + op.width + 2 * Max(100, win.size[1] \div 2)
    /\ 2 * Abs(win.position[3] - op.y) <= win.size[2] + op.height + 2 * 25

ConflictFree(win) ==
    \A k \in 1..Len(model_doors \o model_garage_doors) :
        LET op == (model_doors \o model_garage_doors)[k]
        IN  op.facade = win.facade => ~Conflicts(win, op)

\* C28: _filter_windows_by_openings returns exactly the input windows that
\* conflict with no door and no garage door of their own facade, in their
\* original order.
C28_FilterKeepsConflictFree ==
    fw_pc = "returned" => filtered = SelectSeq(fw_windows, ConflictFree)

C28_Witness ==
    /\ fw_pc = "returned"
    /\ model_garage_doors # <<>>
    /\ Len(filtered) < Len(fw_windows)
    /\ \E i \in 1..Len(filtered) : filtered[i].facade = "front"
    /\ \E i \in 1..Len(fw_windows) :
          /\ fw_windows[i].facade = "back"
          /\ ~ConflictFree([fw_windows[i] EXCEPT !.facade = "front"])

\* Door d stands beside garage door g: 0.3 m to its right or to its left.
IsPairOf(d, g) == Abs(d.x - g.x) = g.width \div 2 + 30 + d.width \div 2

\* C26: no standard or utility door paired with a garage or truck-bay door
\* overlaps any other garage or truck-bay door of the same facade.
C26_PairedDoorClearOfOtherGarages ==
    \A b \in Returned : \A f \in Facades :
        LET gs == OnFacade(b.garage_doors, f) IN
        \A i \in 1..Len(b.doors[f]) : \A k, m \in 1..Len(gs) :
            (/\ b.doors[f][i].type \in {"standard", "utility"}
             /\ k # m
             /\ IsPairOf(b.doors[f][i], gs[k]))
            => ~RectsOverlap(DoorRect(b.doors[f][i]), DoorRect(gs[m]))

====
